---- MODULE Spec2Model ----
(***************************************************************************)
(* Verification model of regen-compute-credits.                            *)
(*                                                                         *)
(* Part 1  executeRetirement (src/src/services/retirement.ts): one call,   *)
(*         one action per awaited downstream call, every outcome of every  *)
(*         call chosen nondeterministically (fault injection).             *)
(* Part 2  Pool accounting: recordContribution over the JSON file store.   *)
(* Part 3  Prepaid balance store and the checkout webhook.                 *)
(* Part 4  Fractional attribution (allocateProportionally).                *)
(*                                                                         *)
(* Each part has its own specification; the variables of the other parts   *)
(* stay at their initial values.                                           *)
(***************************************************************************)
EXTENDS Integers, Sequences, FiniteSets, TLC

VARIABLES
    \* ---- Part 1: executeRetirement
    rpc,        \* position of the call inside executeRetirement
    cfg,        \* loadConfig(): wallet configured, prepaid balance configured
    sel,        \* what selectBestOrders returned
    auth,       \* what provider.authorizePayment returned
    tx,         \* what signAndBroadcast did (threw, or returned a result)
    calls,      \* downstream calls made so far, in order, with their outcome
    result,     \* the RetirementResult returned to the caller
    escaped,    \* TRUE when an exception left executeRetirement
    \* ---- Part 2: pool accounting
    ledgerFile, \* the pool accounting ledger file (absent until first written)
    poolLock,   \* holder of the store's serialization point, or None
    ppc,        \* per caller: position inside recordContribution
    pin,        \* per caller: the ContributionInput of its call
    psnap,      \* per caller: the state it read from the store
    receipts,   \* receipts returned so far, in order of return
    callsMade,  \* number of recordContribution calls started
    \* ---- Part 3: prepaid balance store and webhook
    webhookSecret, \* whether STRIPE_WEBHOOK_SECRET is set
    users,      \* users table, by row id
    transactions, \* transactions table, by row id
    deliveries, \* webhook deliveries handled so far: event id, signature header and HTTP status
    \* ---- Part 4: fractional attribution
    attrInput,  \* the BuildAttributionsInput of the batch execution
    attrOut,    \* what buildContributorAttributions produced for it
    attrReordered, \* the same for the contributors listed in another order
    \* ---- Part 5: order selection
    ordIn,      \* the request, the order book and the clock of one selection
    ordOut,     \* the selection returned (or threw)
    \* ---- Part 6: auth sessions and recovery
    authStore,  \* the auth state file: sessions, links, recoveries
    authNow,    \* the clock deps.now() reads
    recoverLog, \* per recovery token: presented yet, and how often it succeeded
    \* ---- Part 7: the all-customer invoice walk
    walk, \* the locals of one listPaidInvoicesAcrossCustomers call and its position
    \* ---- Part 8: subscription pool sync
    syncPool, \* the contributions of the pool accounting state
    syncRun, \* a sync and its rerun with the same inputs: inputs, results, pool before and after
    \* ---- Part 9: monthly batch retirement runs
    batchRuns, \* the reconciliation run store: the recorded runs, oldest first
    batchInv, \* each driver invocation: its input and where it stands
    \* ---- Part 10: concurrent retirement calls in one process
    retireCalls, \* each open POST /api/v1/retire request: the await its executeRetirement call stands at, and its result
    \* ---- Part 11: the per-key API rate limiter
    rateLimitWindows, \* the rate window of each API key: present, count, windowStart
    rateNow, \* Date.now(), in milliseconds
    rateLog, \* the requests checked so far: key, time, allowed, retryAfterSec
    \* ---- Part 12: identity tags in retirement reasons
    identCase, \* one encode-and-parse round: the reason text and identity given, the tagged reason, and what parsing it returns
    \* ---- Part 13: the retirement entry points and the preferred denom
    entryCall, \* one call of a retirement entry point: the provider configured, the order selection it requested, and what it asked the provider to authorize
    \* ---- Part 14: concurrent retirements drawing on one prepaid balance
    prepaidBalance, \* balance_cents of the prepaid account at the balance service
    prepaidCalls, \* each retirement call: where it stands, its cost in cents, the debits made for it, whether its debit was refused, its result
    \* ---- Part 15: concurrent auth calls over the JSON file store
    raceStore, \* the auth state file
    raceCalls \* each open service call: the operation and its argument, where it stands, the state it read, the error it returned

retVars == <<rpc, cfg, sel, auth, tx, calls, result, escaped>>
poolVars == <<ledgerFile, poolLock, ppc, pin, psnap, receipts, callsMade>>
dbVars == <<webhookSecret, users, transactions, deliveries>>
attrVars == <<attrInput, attrOut, attrReordered>>

ordVars == <<ordIn, ordOut>>

authVars == <<authStore, authNow, recoverLog>>

walkVars == <<walk>>

syncVars == <<syncPool, syncRun>>

batchVars == <<batchRuns, batchInv>>

concVars == <<retireCalls>>

rateVars == <<rateLimitWindows, rateNow, rateLog>>

identVars == <<identCase>>

entryVars == <<entryCall>>

prepaidVars == <<prepaidBalance, prepaidCalls>>

raceVars == <<raceStore, raceCalls>>

vars == <<retVars, poolVars, dbVars, attrVars, ordVars, authVars, walkVars, syncVars, batchVars, concVars, rateVars, identVars, entryVars, prepaidVars, raceVars>>

\* What the actions of one part leave alone: the variables of the other parts.
retOthers == <<poolVars, dbVars, attrVars, ordVars, authVars, walkVars, syncVars, batchVars, concVars, rateVars, identVars, entryVars, prepaidVars, raceVars>>
poolOthers == <<retVars, dbVars, attrVars, ordVars, authVars, walkVars, syncVars, batchVars, concVars, rateVars, identVars, entryVars, prepaidVars, raceVars>>
dbOthers == <<retVars, poolVars, attrVars, ordVars, authVars, walkVars, syncVars, batchVars, concVars, rateVars, identVars, entryVars, prepaidVars, raceVars>>
attrOthers == <<retVars, poolVars, dbVars, ordVars, authVars, walkVars, syncVars, batchVars, concVars, rateVars, identVars, entryVars, prepaidVars, raceVars>>
ordOthers == <<retVars, poolVars, dbVars, attrVars, authVars, walkVars, syncVars, batchVars, concVars, rateVars, identVars, entryVars, prepaidVars, raceVars>>
authOthers == <<retVars, poolVars, dbVars, attrVars, ordVars, walkVars, syncVars, batchVars, concVars, rateVars, identVars, entryVars, prepaidVars, raceVars>>
walkOthers == <<retVars, poolVars, dbVars, attrVars, ordVars, authVars, syncVars, batchVars, concVars, rateVars, identVars, entryVars, prepaidVars, raceVars>>
syncOthers == <<retVars, poolVars, dbVars, attrVars, ordVars, authVars, walkVars, batchVars, concVars, rateVars, identVars, entryVars, prepaidVars, raceVars>>
batchOthers == <<retVars, poolVars, dbVars, attrVars, ordVars, authVars, walkVars, syncVars, concVars, rateVars, identVars, entryVars, prepaidVars, raceVars>>
concOthers == <<retVars, poolVars, dbVars, attrVars, ordVars, authVars, walkVars, syncVars, batchVars, rateVars, identVars, entryVars, prepaidVars, raceVars>>
rateOthers == <<retVars, poolVars, dbVars, attrVars, ordVars, authVars, walkVars, syncVars, batchVars, concVars, identVars, entryVars, prepaidVars, raceVars>>
identOthers == <<retVars, poolVars, dbVars, attrVars, ordVars, authVars, walkVars, syncVars, batchVars, concVars, rateVars, entryVars, prepaidVars, raceVars>>
entryOthers == <<retVars, poolVars, dbVars, attrVars, ordVars, authVars, walkVars, syncVars, batchVars, concVars, rateVars, identVars, prepaidVars, raceVars>>
prepaidOthers == <<retVars, poolVars, dbVars, attrVars, ordVars, authVars, walkVars, syncVars, batchVars, concVars, rateVars, identVars, entryVars, raceVars>>
raceOthers == <<retVars, poolVars, dbVars, attrVars, ordVars, authVars, walkVars, syncVars, batchVars, concVars, rateVars, identVars, entryVars, prepaidVars>>

None == "none"

\* ------------------------------------------------------------------------
\* Part 1: executeRetirement
\* ------------------------------------------------------------------------

\* Bounds of the injected values.
MaxBalanceCents == 2
MaxCostCents == 2

ErrTexts == {"rpc unavailable", "timeout"}
RawLogs == {"", "out of gas"}
AuthIds == {"auth-1", "auth-2"}
TxHashes == {"TX1"}
RejectCodes == {5, 11}

Call(op, arg, out) == [op |-> op, arg |-> arg, out |-> out]

\* fallback(message, params): the message is kept as its template and the
\* interpolated error text.
fallback(kind, text) ==
    [status |-> "marketplace_fallback", kind |-> kind, text |-> text, txHash |-> None]

\* err instanceof Error ? err.message : String(err)
errMsg(text) == text

\* txResult.rawLog || "unknown error"
rawLogOrUnknown(rawLog) == IF rawLog = "" THEN "unknown error" ELSE rawLog

\* checkPrepaidBalance(): null when no balance service is configured, when the
\* request fails or is not ok; otherwise the balance it read.
NullBalance == [isNull |-> TRUE, balance_cents |-> 0]

checkPrepaidBalanceOutcomes(usePrepaid) ==
    IF usePrepaid
    THEN {NullBalance} \cup [isNull : {FALSE}, balance_cents : 0..MaxBalanceCents]
    ELSE {NullBalance}

\* balance && balance.available, with available = balance_cents > 0
balanceAvailable(balance) == ~balance.isNull /\ balance.balance_cents > 0

\* The try/catch structure: which handler receives an exception thrown by the
\* given step. "outer" is the try of lines 153-282, "inner" the try around
\* signAndBroadcast, "ignore" the empty catch around refundPayment.
Handler_CaptureOutsideTry(step) ==
    CASE step = "broadcast" -> "inner"
      [] step = "refund" -> "ignore"
      [] step \in {"initWallet", "select", "authorize", "build", "wait"} -> "outer"
      [] OTHER -> "uncaught"

Handler(step) ==
    CASE step = "broadcast" -> "inner"
      [] step = "refund" -> "ignore"
      [] step \in {"initWallet", "select", "authorize", "build", "capture", "wait"}
            -> "outer"
      [] OTHER -> "uncaught"

\* An exception thrown by `step` (with message `text`) and not handled locally.
Raise(step, text) ==
    IF Handler(step) = "outer"
    THEN /\ result' = fallback("direct_failed", errMsg(text))
         /\ escaped' = escaped
         /\ rpc' = "done"
    ELSE /\ result' = result
         /\ escaped' = TRUE
         /\ rpc' = "done"

Return(r) ==
    /\ result' = r
    /\ rpc' = "done"
    /\ UNCHANGED escaped

NoSelection == [kind |-> None, costCents |-> 0, idsValid |-> TRUE]
NoAuth == [id |-> None, status |-> None]
NoTx == [kind |-> None, text |-> "", code |-> -1, hash |-> None]
NoResult == [status |-> None, kind |-> None, text |-> "", txHash |-> None]

RetInit ==
    /\ rpc = "start"
    /\ cfg \in [wallet : BOOLEAN, usePrepaid : BOOLEAN]
    /\ sel = NoSelection
    /\ auth = NoAuth
    /\ tx = NoTx
    /\ calls = <<>>
    /\ result = NoResult
    /\ escaped = FALSE

\* if (!isWalletConfigured())
Enter ==
    /\ rpc = "start"
    /\ rpc' = IF cfg.wallet THEN "initWallet" ELSE "pathA"
    /\ UNCHANGED <<cfg, sel, auth, tx, calls, result, escaped>>
    /\ UNCHANGED retOthers

\* Path A: no wallet, marketplace link.
PathA ==
    /\ rpc = "pathA"
    /\ \E balance \in checkPrepaidBalanceOutcomes(cfg.usePrepaid) :
         /\ calls' = Append(calls, Call("checkPrepaidBalance", None, IF balance.isNull THEN "null" ELSE "balance"))
         /\ IF balanceAvailable(balance)
            THEN Return(fallback("no_wallet_prepaid", ""))
            ELSE Return(fallback("no_wallet", ""))
    /\ UNCHANGED <<cfg, sel, auth, tx>>
    /\ UNCHANGED retOthers

\* const { address } = await initWallet();
InitWallet ==
    /\ rpc = "initWallet"
    /\ \/ /\ calls' = Append(calls, Call("initWallet", None, "ok"))
          /\ rpc' = "select"
          /\ UNCHANGED <<result, escaped>>
       \/ \E t \in ErrTexts :
            /\ calls' = Append(calls, Call("initWallet", None, "throw"))
            /\ Raise("initWallet", t)
    /\ UNCHANGED <<cfg, sel, auth, tx>>
    /\ UNCHANGED retOthers

\* What selectBestOrders can return: no order, too little supply, or a fill of
\* the requested quantity. idsValid says whether every sellOrderId is a decimal
\* integer string (what BigInt() accepts).
Selections ==
    [kind : {"empty", "insufficient"}, costCents : {0}, idsValid : {TRUE}]
    \cup [kind : {"ok"}, costCents : 1..MaxCostCents, idsValid : BOOLEAN]

\* selectBestOrders, then the two early returns of lines 161-172.
SelectOrders ==
    /\ rpc = "select"
    /\ \/ \E s \in Selections :
            /\ calls' = Append(calls, Call("selectBestOrders", None, s.kind))
            /\ sel' = s
            /\ IF s.kind = "empty"
               THEN Return(fallback("no_orders", ""))
               ELSE IF s.kind = "insufficient"
               THEN Return(fallback("insufficient_supply", ""))
               ELSE /\ rpc' = IF cfg.usePrepaid THEN "balance" ELSE "authorize"
                    /\ UNCHANGED <<result, escaped>>
       \/ \E t \in ErrTexts :
            /\ calls' = Append(calls, Call("selectBestOrders", None, "throw"))
            /\ sel' = sel
            /\ Raise("select", t)
    /\ UNCHANGED <<cfg, auth, tx>>
    /\ UNCHANGED retOthers

\* if (usePrepaid) { const balance = await checkPrepaidBalance(); ... }
BalanceCheck ==
    /\ rpc = "balance"
    /\ \E balance \in checkPrepaidBalanceOutcomes(cfg.usePrepaid) :
         /\ calls' = Append(calls, Call("checkPrepaidBalance", None, IF balance.isNull THEN "null" ELSE "balance"))
         /\ IF ~balanceAvailable(balance) \/ balance.balance_cents < sel.costCents
            THEN Return(fallback("insufficient_prepaid", ""))
            ELSE /\ rpc' = "authorize"
                 /\ UNCHANGED <<result, escaped>>
    /\ UNCHANGED <<cfg, sel, auth, tx>>
    /\ UNCHANGED retOthers

\* Where the call goes after authorizePayment returned.
AfterAuthorize_IgnoreFailed(status) == "build"

AfterAuthorize(status) == IF status = "failed" THEN "fallback" ELSE "build"

\* const auth = await provider.authorizePayment(...)
Authorize ==
    /\ rpc = "authorize"
    /\ \/ \E id \in AuthIds, status \in {"authorized", "failed"} :
            /\ calls' = Append(calls, Call("authorize", None, status))
            /\ auth' = [id |-> id, status |-> status]
            /\ IF AfterAuthorize(status) = "fallback"
               THEN Return(fallback("auth_failed", ""))
               ELSE /\ rpc' = "build"
                    /\ UNCHANGED <<result, escaped>>
       \/ \E t \in ErrTexts :
            /\ calls' = Append(calls, Call("authorize", None, "throw"))
            /\ auth' = auth
            /\ Raise("authorize", t)
    /\ UNCHANGED <<cfg, sel, tx>>
    /\ UNCHANGED retOthers

\* selection.orders.map(order => ({ sellOrderId: BigInt(order.sellOrderId), ... }))
\* BigInt throws a SyntaxError on a string that is not an integer.
BuildMsg ==
    /\ rpc = "build"
    /\ IF sel.idsValid
       THEN /\ rpc' = "broadcast"
            /\ UNCHANGED <<result, escaped>>
       ELSE Raise("build", "Cannot convert to a BigInt")
    /\ UNCHANGED <<cfg, sel, auth, tx, calls>>
    /\ UNCHANGED retOthers

BroadcastOutcomes ==
    [kind : {"throw"}, text : ErrTexts, code : {-1}, hash : {None}]
    \cup [kind : {"result"}, text : RawLogs, code : RejectCodes, hash : {None}]
    \cup [kind : {"result"}, text : {""}, code : {0}, hash : TxHashes]

\* Where the call goes after signAndBroadcast: the catch of line 226, the
\* code check of line 232, or on to capture.
AfterBroadcast_InvertedCodeCheck(o) ==
    IF o.kind = "throw" THEN "refundThrow"
    ELSE IF o.code = 0 THEN "refundReject"
    ELSE "capture"

AfterBroadcast_NoRefundOnReject(o) ==
    IF o.kind = "throw" THEN "refundThrow"
    ELSE IF o.code /= 0 THEN "rejected"
    ELSE "capture"

AfterBroadcast(o) ==
    IF o.kind = "throw" THEN "refundThrow"
    ELSE IF o.code /= 0 THEN "refundReject"
    ELSE "capture"

\* txResult = await signAndBroadcast([msg])
Broadcast ==
    /\ rpc = "broadcast"
    /\ \E o \in BroadcastOutcomes :
         /\ tx' = o
         /\ calls' = Append(calls,
                Call("signAndBroadcast", None,
                     IF o.kind = "throw" THEN "throw"
                     ELSE IF o.code = 0 THEN "code0" ELSE "rejected"))
         /\ IF AfterBroadcast(o) = "rejected"
            THEN Return(fallback("tx_rejected", rawLogOrUnknown(o.text)))
            ELSE /\ rpc' = AfterBroadcast(o)
                 /\ UNCHANGED <<result, escaped>>
    /\ UNCHANGED <<cfg, sel, auth>>
    /\ UNCHANGED retOthers

\* try { await provider.refundPayment(auth.id); } catch { /* ignore */ }
\* then the fallback of the branch that was taken.
Refund ==
    /\ rpc \in {"refundThrow", "refundReject"}
    /\ \E out \in {"ok", "throw"} :
         calls' = Append(calls, Call("refund", auth.id, out))
    /\ IF rpc = "refundThrow"
       THEN Return(fallback("broadcast_failed", errMsg(tx.text)))
       ELSE Return(fallback("tx_rejected", rawLogOrUnknown(tx.text)))
    /\ UNCHANGED <<cfg, sel, auth, tx>>
    /\ UNCHANGED retOthers

\* await provider.capturePayment(auth.id)
Capture ==
    /\ rpc = "capture"
    /\ \/ /\ calls' = Append(calls, Call("capture", auth.id, "ok"))
          /\ rpc' = IF cfg.usePrepaid THEN "debit" ELSE "wait"
          /\ UNCHANGED <<result, escaped>>
       \/ \E t \in ErrTexts :
            /\ calls' = Append(calls, Call("capture", auth.id, "throw"))
            /\ Raise("capture", t)
    /\ UNCHANGED <<cfg, sel, auth, tx>>
    /\ UNCHANGED retOthers

\* if (usePrepaid) await debitPrepaidBalance(costCents, ..., txHash, ...)
\* debitPrepaidBalance catches its own errors and its result is not read.
Debit ==
    /\ rpc = "debit"
    /\ \E out \in {"debited", "refused", "error"} :
         calls' = Append(calls, Call("debitPrepaidBalance", tx.hash, out))
    /\ rpc' = "wait"
    /\ UNCHANGED <<cfg, sel, auth, tx, result, escaped>>
    /\ UNCHANGED retOthers

success(hash, certificate) ==
    [status |-> "success", kind |-> certificate, text |-> "", txHash |-> hash]

\* const retirement = await waitForRetirement(txResult.transactionHash)
\* and the result built from it; with a prepaid balance one more balance read.
WaitForRetirement ==
    /\ rpc = "wait"
    /\ \/ \E out \in {"record", "null"} :
            /\ calls' = Append(calls, Call("waitForRetirement", tx.hash, out))
            /\ IF cfg.usePrepaid
               THEN /\ result' = success(tx.hash, out)
                    /\ rpc' = "remaining"
                    /\ UNCHANGED escaped
               ELSE Return(success(tx.hash, out))
       \/ \E t \in ErrTexts :
            /\ calls' = Append(calls, Call("waitForRetirement", tx.hash, "throw"))
            /\ Raise("wait", t)
    /\ UNCHANGED <<cfg, sel, auth, tx>>
    /\ UNCHANGED retOthers

\* const remaining = await checkPrepaidBalance(); return result
RemainingBalance ==
    /\ rpc = "remaining"
    /\ \E balance \in checkPrepaidBalanceOutcomes(cfg.usePrepaid) :
         calls' = Append(calls, Call("checkPrepaidBalance", None, IF balance.isNull THEN "null" ELSE "balance"))
    /\ rpc' = "done"
    /\ UNCHANGED <<cfg, sel, auth, tx, result, escaped>>
    /\ UNCHANGED retOthers

RetNext ==
    \/ Enter
    \/ PathA
    \/ InitWallet
    \/ SelectOrders
    \/ BalanceCheck
    \/ Authorize
    \/ BuildMsg
    \/ Broadcast
    \/ Refund
    \/ Capture
    \/ Debit
    \/ WaitForRetirement
    \/ RemainingBalance

\* ------------------------------------------------------------------------
\* Part 2: pool accounting (recordContribution over JsonFilePoolAccountingStore)
\* ------------------------------------------------------------------------

MaxCalls == 3
MaxAmountCents == 2

Callers == {"c1", "c2"}
EventIds == {"", "stripe_invoice:in_march", "stripe_invoice:in_april"}
ContributionInputs == [externalEventId : EventIds, amountUsdCents : 1..MaxAmountCents]

\* getDefaultState(): { version: 1, contributions: [] }
getDefaultState == <<>>

NoFile == [exists |-> FALSE, contributions |-> <<>>]

\* JsonFilePoolAccountingStore.readState: the parsed file, or the default state
\* when the file does not exist (ENOENT).
readState_DefaultOnAnyError(file) == getDefaultState

readState(file) == IF file.exists THEN file.contributions ELSE getDefaultState

\* JsonFilePoolAccountingStore.writeState: write the temp file, rename it over
\* the ledger file.
writeState(state) == [exists |-> TRUE, contributions |-> state]

\* The store's serialization point: a call enters its read-modify-write only
\* when no other call is inside one.
SerializationPoint_None(holder) == TRUE

SerializationPoint(holder) == holder = None

\* The contribution of `state` carrying `eid`, as a set (empty: none).
findByExternalEventId(state, eid) ==
    IF eid = "" THEN {}
    ELSE {state[i] : i \in {j \in DOMAIN state : state[j].externalEventId = eid}}

NoInput == [externalEventId |-> "", amountUsdCents |-> 0, seq |-> 0]

PoolInit ==
    /\ ledgerFile = NoFile
    /\ poolLock = None
    /\ ppc = [c \in Callers |-> "idle"]
    /\ pin = [c \in Callers |-> NoInput]
    /\ psnap = [c \in Callers |-> <<>>]
    /\ receipts = <<>>
    /\ callsMade = 0

\* A caller invokes recordContribution(input).
RecordCall(c) ==
    /\ ppc[c] = "idle"
    /\ callsMade < MaxCalls
    /\ \E input \in ContributionInputs :
         pin' = [pin EXCEPT ![c] = [externalEventId |-> input.externalEventId,
                                    amountUsdCents |-> input.amountUsdCents,
                                    seq |-> callsMade + 1]]
    /\ ppc' = [ppc EXCEPT ![c] = "called"]
    /\ callsMade' = callsMade + 1
    /\ UNCHANGED <<ledgerFile, poolLock, psnap, receipts>>
    /\ UNCHANGED poolOthers

\* The call enters the read-modify-write: state = await store.readState().
RecordRead(c) ==
    /\ ppc[c] = "called"
    /\ SerializationPoint(poolLock)
    /\ poolLock' = c
    /\ psnap' = [psnap EXCEPT ![c] = readState(ledgerFile)]
    /\ ppc' = [ppc EXCEPT ![c] = "read"]
    /\ UNCHANGED <<ledgerFile, pin, receipts, callsMade>>
    /\ UNCHANGED poolOthers

\* Duplicate: return the existing contribution, no write. Otherwise append the
\* new contribution and await store.writeState(state).
RecordWrite(c) ==
    /\ ppc[c] = "read"
    /\ LET existing == findByExternalEventId(psnap[c], pin[c].externalEventId)
           record == [id |-> pin[c].seq,
                      externalEventId |-> pin[c].externalEventId,
                      amountUsdCents |-> pin[c].amountUsdCents]
       IN IF existing /= {}
          THEN /\ receipts' = Append(receipts,
                      [caller |-> c, input |-> pin[c],
                       record |-> CHOOSE r \in existing : TRUE,
                       duplicate |-> TRUE, wrote |-> FALSE])
               /\ UNCHANGED ledgerFile
          ELSE /\ receipts' = Append(receipts,
                      [caller |-> c, input |-> pin[c], record |-> record,
                       duplicate |-> FALSE, wrote |-> TRUE])
               /\ ledgerFile' = writeState(Append(psnap[c], record))
    /\ poolLock' = IF poolLock = c THEN None ELSE poolLock
    /\ ppc' = [ppc EXCEPT ![c] = "idle"]
    /\ UNCHANGED <<pin, psnap, callsMade>>
    /\ UNCHANGED poolOthers

PoolNext == \E c \in Callers : RecordCall(c) \/ RecordRead(c) \/ RecordWrite(c)

\* ------------------------------------------------------------------------
\* Part 3: prepaid balance store (db) and the checkout webhook (routes)
\* ------------------------------------------------------------------------

MaxDeliveries == 3

\* The events the gateway can deliver; redelivering an event delivers the same
\* record again.
WebhookEvents ==
    { [id |-> "evt_1", type |-> "checkout.session.completed", session |-> "cs_1",
       amount_total |-> 1, email |-> "alice@example.com"],
      [id |-> "evt_2", type |-> "checkout.session.completed", session |-> "cs_2",
       amount_total |-> 2, email |-> "alice@example.com"],
      [id |-> "evt_3", type |-> "checkout.session.completed", session |-> "cs_3",
       amount_total |-> 1, email |-> None],
      [id |-> "evt_4", type |-> "invoice.paid", session |-> None,
       amount_total |-> 0, email |-> None] }

\* The stripe-signature header of a request: absent, valid or forged.
Signatures == {"absent", "valid", "forged"}

DbInit ==
    /\ webhookSecret \in BOOLEAN
    /\ users = <<>>
    /\ transactions = <<>>
    /\ deliveries = <<>>

\* getUserByEmail: the first row with that email (0: none).
getUserByEmail(tbl, email) ==
    LET rows == {i \in DOMAIN tbl : tbl[i].email = email}
    IN IF rows = {} THEN 0 ELSE CHOOSE i \in rows : \A j \in rows : i <= j

\* createUser: INSERT INTO users, balance_cents defaults to 0.
createUser(tbl, email) == Append(tbl, [email |-> email, balance_cents |-> 0])

\* creditBalance: in one transaction, add to the balance and insert a 'topup'
\* row carrying the checkout session id.
creditBalanceUsers(tbl, userId, amountCents) ==
    [tbl EXCEPT ![userId].balance_cents = @ + amountCents]

creditBalanceTransactions(txns, userId, amountCents, stripeSessionId) ==
    Append(txns, [user_id |-> userId, type |-> "topup", amount_cents |-> amountCents,
                  stripe_session_id |-> stripeSessionId])

\* The debit without the balance check: the UPDATE and the INSERT always run.
debitBalance_Unchecked(tbl, txns, userId, amountCents) ==
    IF userId \notin DOMAIN tbl
    THEN [success |-> FALSE, balance_cents |-> 0, users |-> tbl, transactions |-> txns]
    ELSE [success |-> TRUE,
          balance_cents |-> tbl[userId].balance_cents - amountCents,
          users |-> [tbl EXCEPT ![userId].balance_cents = @ - amountCents],
          transactions |-> Append(txns,
              [user_id |-> userId, type |-> "retirement",
               amount_cents |-> amountCents, stripe_session_id |-> None])]

\* debitBalance: in one transaction, read the user's balance; without the
\* user or with less than the amount nothing is written and the result
\* carries the balance read; otherwise subtract the amount and insert a
\* 'retirement' row.
debitBalance(tbl, txns, userId, amountCents) ==
    IF userId \notin DOMAIN tbl
    THEN [success |-> FALSE, balance_cents |-> 0, users |-> tbl, transactions |-> txns]
    ELSE IF tbl[userId].balance_cents < amountCents
    THEN [success |-> FALSE, balance_cents |-> tbl[userId].balance_cents,
          users |-> tbl, transactions |-> txns]
    ELSE [success |-> TRUE,
          balance_cents |-> tbl[userId].balance_cents - amountCents,
          users |-> [tbl EXCEPT ![userId].balance_cents = @ - amountCents],
          transactions |-> Append(txns,
              [user_id |-> userId, type |-> "retirement",
               amount_cents |-> amountCents, stripe_session_id |-> None])]

\* Whether the handler goes on to process the event: with a secret and a
\* signature header constructEvent must accept it; otherwise the body is parsed
\* as it is.
webhookAccepts(secret, sig) == IF secret /\ sig /= "absent" THEN sig = "valid" ELSE TRUE

\* POST /webhook
Webhook(event, sig) ==
    /\ Len(deliveries) < MaxDeliveries
    /\ IF ~webhookAccepts(webhookSecret, sig)
       THEN /\ deliveries' = Append(deliveries, [event |-> event.id, sig |-> sig, http |-> 400])
            /\ UNCHANGED <<users, transactions>>
       ELSE /\ deliveries' = Append(deliveries, [event |-> event.id, sig |-> sig, http |-> 200])
            /\ IF event.type = "checkout.session.completed"
               THEN LET found == IF event.email = None THEN 0
                                 ELSE getUserByEmail(users, event.email)
                        tbl == IF found = 0 THEN createUser(users, event.email) ELSE users
                        userId == IF found = 0 THEN Len(tbl) ELSE found
                    IN /\ users' = creditBalanceUsers(tbl, userId, event.amount_total)
                       /\ transactions' = creditBalanceTransactions(
                              transactions, userId, event.amount_total, event.session)
               ELSE UNCHANGED <<users, transactions>>
    /\ UNCHANGED webhookSecret
    /\ UNCHANGED dbOthers

DbNext == \E event \in WebhookEvents, sig \in Signatures : Webhook(event, sig)

\* The largest amount one debit asks for.
MaxDebitCents == 2

\* amount_cents of a POST /debit body: not positive, or 1..MaxDebitCents.
DebitAmounts == -1..MaxDebitCents

\* POST /debit of an authenticated user: an amount that is not positive is
\* refused with 400 before the store is touched; otherwise debitBalance
\* decides (402 when it fails).
PostDebit ==
    \E userId \in DOMAIN users, amount_cents \in DebitAmounts :
       /\ IF amount_cents <= 0
          THEN UNCHANGED <<users, transactions>>
          ELSE LET r == debitBalance(users, transactions, userId, amount_cents)
               IN /\ users' = r.users
                  /\ transactions' = r.transactions
       /\ UNCHANGED <<webhookSecret, deliveries>>
       /\ UNCHANGED dbOthers

\* Top-ups (webhook deliveries with a verified signature) and debits in any
\* order.
BalanceNext ==
    \/ \E event \in WebhookEvents : Webhook(event, "valid")
    \/ PostDebit

\* ------------------------------------------------------------------------
\* Part 4: fractional attribution (batch-retirement/attribution.ts)
\* ------------------------------------------------------------------------

MICRO_FACTOR == 1000000

MaxContributors == 3
MaxWeight == 3
MaxCostMicro == 2

RECURSIVE Sum(_)
Sum(seq) == IF seq = <<>> THEN 0 ELSE seq[1] + Sum(Tail(seq))

\* A decimal string "whole.frac": its integer part and its fraction digits.
Quantities ==
    { [whole |-> 0, frac |-> <<>>],
      [whole |-> 0, frac |-> <<0, 0, 0, 0, 0, 2>>],
      [whole |-> 1, frac |-> <<5>>],
      [whole |-> 2, frac |-> <<3, 3, 3, 3, 3, 3>>] }

ZeroQuantity == [whole |-> 0, frac |-> <<>>]

RECURSIVE digitsValue(_)
digitsValue(ds) ==
    IF ds = <<>> THEN 0 ELSE digitsValue(SubSeq(ds, 1, Len(ds) - 1)) * 10 + ds[Len(ds)]

\* fracPart.padEnd(6, "0").slice(0, 6)
padEnd6(frac) == [i \in 1..6 |-> IF i <= Len(frac) THEN frac[i] ELSE 0]

\* parseQuantityToMicro(quantity)
parseQuantityToMicro(q) == q.whole * MICRO_FACTOR + digitsValue(padEnd6(q.frac))

\* microToQuantity(micro): whole part and the fraction padded to 6 digits.
microToQuantity(micro) ==
    [whole |-> micro \div MICRO_FACTOR,
     frac |-> [i \in 1..6 |-> ((micro % MICRO_FACTOR) \div (10 ^ (6 - i))) % 10]]

\* The comparator of entries.sort: negative when a sorts before b.
compareEntries_RemainderAscending(a, b) ==
    IF a.remainder < b.remainder THEN -1
    ELSE IF a.remainder > b.remainder THEN 1
    ELSE IF a.weight > b.weight THEN -1
    ELSE IF a.weight < b.weight THEN 1
    ELSE a.index - b.index

compareEntries_WeightAscending(a, b) ==
    IF a.remainder > b.remainder THEN -1
    ELSE IF a.remainder < b.remainder THEN 1
    ELSE IF a.weight < b.weight THEN -1
    ELSE IF a.weight > b.weight THEN 1
    ELSE a.index - b.index

compareEntries(a, b) ==
    IF a.remainder > b.remainder THEN -1
    ELSE IF a.remainder < b.remainder THEN 1
    ELSE IF a.weight > b.weight THEN -1
    ELSE IF a.weight < b.weight THEN 1
    ELSE a.index - b.index

\* Array.prototype.sort with compareEntries (a stable sort): insertion of each
\* entry after the last entry that does not sort after it.
RECURSIVE insertSorted(_, _)
insertSorted(sorted, e) ==
    IF sorted = <<>> THEN <<e>>
    ELSE IF compareEntries(e, sorted[1]) < 0 THEN <<e>> \o sorted
    ELSE <<sorted[1]>> \o insertSorted(Tail(sorted), e)

RECURSIVE sortEntries(_)
sortEntries(entries) ==
    IF entries = <<>> THEN <<>>
    ELSE insertSorted(sortEntries(SubSeq(entries, 1, Len(entries) - 1)),
                      entries[Len(entries)])

\* for (i = 0; i < entries.length && remainderUnits > 0; i++) entries[i].base += 1
distributeRemainder_StopsOneShort(sorted, remainderUnits) ==
    [k \in DOMAIN sorted |->
        IF k < remainderUnits THEN [sorted[k] EXCEPT !.base = @ + 1] ELSE sorted[k]]

distributeRemainder_SkipsFirstContributor(sorted, remainderUnits) ==
    [k \in DOMAIN sorted |->
        IF k <= remainderUnits /\ sorted[k].index /= 1
        THEN [sorted[k] EXCEPT !.base = @ + 1] ELSE sorted[k]]

distributeRemainder(sorted, remainderUnits) ==
    [k \in DOMAIN sorted |->
        IF k <= remainderUnits THEN [sorted[k] EXCEPT !.base = @ + 1] ELSE sorted[k]]

\* allocateProportionally(total, weights): the allocations, or threw = TRUE
\* for "Proportional allocation mismatch".
allocateProportionally(total, weights) ==
    LET zeros == [i \in DOMAIN weights |-> 0]
        sumWeights == Sum(weights)
    IN IF total <= 0 \/ Len(weights) = 0 THEN [threw |-> FALSE, alloc |-> zeros]
       ELSE IF sumWeights <= 0 THEN [threw |-> FALSE, alloc |-> zeros]
       ELSE
         LET entries == [i \in DOMAIN weights |->
                           [index |-> i, weight |-> weights[i],
                            base |-> (total * weights[i]) \div sumWeights,
                            remainder |-> (total * weights[i]) % sumWeights]]
             allocated == Sum([i \in DOMAIN entries |-> entries[i].base])
             remainderUnits == total - allocated
             bumped == distributeRemainder(sortEntries(entries), remainderUnits)
             res == [i \in DOMAIN weights |->
                       (CHOOSE e \in {bumped[k] : k \in DOMAIN bumped} : e.index = i).base]
         IN [threw |-> Sum(res) /= total, alloc |-> res]

\* buildContributorAttributions(input)
buildContributorAttributions(input) ==
    LET weights == input.contributors
        sumWeights == Sum(weights)
        none == [threw |-> FALSE, attributions |-> <<>>,
                 budgetAllocations |-> <<>>, costAllocations |-> <<>>,
                 quantityAllocations |-> <<>>]
    IN IF Len(input.contributors) = 0 THEN none
       ELSE IF input.totalContributionUsdCents <= 0 THEN none
       ELSE IF sumWeights <= 0 THEN none
       ELSE
         LET quantityMicroTotal == parseQuantityToMicro(input.retiredQuantity)
             budget == allocateProportionally(input.appliedBudgetUsdCents, weights)
             cost == allocateProportionally(input.totalCostMicro, weights)
             quantity == allocateProportionally(quantityMicroTotal, weights)
         IN [threw |-> budget.threw \/ cost.threw \/ quantity.threw,
             attributions |->
                [i \in DOMAIN weights |->
                   [sharePpm |-> (weights[i] * 1000000) \div sumWeights,
                    contributionUsdCents |-> weights[i],
                    attributedBudgetUsdCents |-> budget.alloc[i],
                    attributedCostMicro |-> cost.alloc[i],
                    attributedQuantity |-> microToQuantity(quantity.alloc[i])]],
             budgetAllocations |-> budget.alloc,
             costAllocations |-> cost.alloc,
             quantityAllocations |-> quantity.alloc]

\* Per-contributor month totals (totalUsdCents), in the order of the list.
ContributorLists ==
    UNION {[1..n -> 0..MaxWeight] : n \in 0..MaxContributors}

\* The inputs a batch execution hands over: the month total is the sum of the
\* contributors' totals, the applied budget is that total less the fee share,
\* and nothing is bought (no cost, no quantity) with no budget.
BatchInputs ==
    {in \in [contributors : ContributorLists,
             appliedBudgetUsdCents : 0..(MaxContributors * MaxWeight),
             totalCostMicro : 0..MaxCostMicro,
             retiredQuantity : Quantities] :
        /\ in.appliedBudgetUsdCents <= Sum(in.contributors)
        /\ in.appliedBudgetUsdCents = 0 =>
              in.totalCostMicro = 0 /\ in.retiredQuantity = ZeroQuantity}

NoAttrInput ==
    [contributors |-> <<>>, totalContributionUsdCents |-> 0, appliedBudgetUsdCents |-> 0,
     totalCostMicro |-> 0, retiredQuantity |-> ZeroQuantity]

NoAttrOut ==
    [done |-> FALSE, threw |-> FALSE, attributions |-> <<>>, budgetAllocations |-> <<>>,
     costAllocations |-> <<>>, quantityAllocations |-> <<>>]

NoReordered == [order |-> <<>>, out |-> NoAttrOut]

AttrInit ==
    /\ attrInput = NoAttrInput
    /\ attrOut = NoAttrOut
    /\ attrReordered = NoReordered

\* A batch execution attributes its retirement to the month's contributors.
BuildAttributions ==
    /\ ~attrOut.done
    /\ \E in \in BatchInputs :
         LET input == [contributors |-> in.contributors,
                       totalContributionUsdCents |-> Sum(in.contributors),
                       appliedBudgetUsdCents |-> in.appliedBudgetUsdCents,
                       totalCostMicro |-> in.totalCostMicro,
                       retiredQuantity |-> in.retiredQuantity]
             out == buildContributorAttributions(input)
         IN /\ attrInput' = input
            /\ attrOut' = [done |-> TRUE, threw |-> out.threw,
                           attributions |-> out.attributions,
                           budgetAllocations |-> out.budgetAllocations,
                           costAllocations |-> out.costAllocations,
                           quantityAllocations |-> out.quantityAllocations]
    /\ UNCHANGED attrReordered
    /\ UNCHANGED attrOthers

AttrNext == BuildAttributions

\* Bound of the weights of the lists that are attributed in two orders.
MaxReorderWeight == 2

\* The batch inputs that are attributed in two orders: one retirement
\* (cost and quantity fixed), every contributor list and applied budget.
ReorderInputs ==
    {in \in BatchInputs :
        /\ \A i \in DOMAIN in.contributors : in.contributors[i] <= MaxReorderWeight
        /\ in.appliedBudgetUsdCents > 0
        /\ in.totalCostMicro = MaxCostMicro
        /\ in.retiredQuantity = [whole |-> 1, frac |-> <<5>>]}

\* The reorderings of a list of n contributors.
Reorderings(n) == {p \in [1..n -> 1..n] : \A i, j \in 1..n : p[i] = p[j] => i = j}

\* The input with its contributors listed in the order p.
reordered(input, p) ==
    [input EXCEPT !.contributors = [i \in DOMAIN input.contributors |-> input.contributors[p[i]]]]

attributed(input) ==
    LET out == buildContributorAttributions(input)
    IN [done |-> TRUE, threw |-> out.threw,
        attributions |-> out.attributions,
        budgetAllocations |-> out.budgetAllocations,
        costAllocations |-> out.costAllocations,
        quantityAllocations |-> out.quantityAllocations]

\* The same month attributed twice: with the contributors as listed, and
\* with the same contributors listed in another order.
BuildReordered ==
    /\ ~attrOut.done
    /\ \E in \in ReorderInputs :
         \E p \in Reorderings(Len(in.contributors)) :
           LET input == [contributors |-> in.contributors,
                         totalContributionUsdCents |-> Sum(in.contributors),
                         appliedBudgetUsdCents |-> in.appliedBudgetUsdCents,
                         totalCostMicro |-> in.totalCostMicro,
                         retiredQuantity |-> in.retiredQuantity]
           IN /\ attrInput' = input
              /\ attrOut' = attributed(input)
              /\ attrReordered' = [order |-> p, out |-> attributed(reordered(input, p))]
    /\ UNCHANGED attrOthers

ReorderNext == BuildReordered

\* ------------------------------------------------------------------------
\* Part 5: order selection (selectOrdersForBudget, selectBestOrders)
\* ------------------------------------------------------------------------

MICRO_CREDITS == 1000000

MaxOrders == 2
MaxBudgetMicro == 3

\* BigInt(ask_amount): the value, or ok = FALSE where BigInt throws.
BigIntOf(s) ==
    CASE s = "0" -> [ok |-> TRUE, v |-> 0]
      [] s = "-5" -> [ok |-> TRUE, v |-> -5]
      [] s = "3" -> [ok |-> TRUE, v |-> 3]
      [] s = "700" -> [ok |-> TRUE, v |-> 700]
      [] s = "1000" -> [ok |-> TRUE, v |-> 1000]
      [] OTHER -> [ok |-> FALSE, v |-> 0]

\* parseFloat(order.quantity) and BigInt(Math.floor(available * 1_000_000)).
parseFloatMicro(s) ==
    CASE s = "0" -> [finite |-> TRUE, positive |-> FALSE, micro |-> 0]
      [] s = "0.000001" -> [finite |-> TRUE, positive |-> TRUE, micro |-> 1]
      [] s = "0.0000001" -> [finite |-> TRUE, positive |-> TRUE, micro |-> 0]
      [] s = "0.5" -> [finite |-> TRUE, positive |-> TRUE, micro |-> 500000]
      [] s = "2" -> [finite |-> TRUE, positive |-> TRUE, micro |-> 2000000]
      [] OTHER -> [finite |-> FALSE, positive |-> FALSE, micro |-> 0]

toLowerCase(s) ==
    CASE s = "USDC" -> "usdc"
      [] s = "REGEN" -> "regen"
      [] s = "EEUR" -> "eeur"
      [] OTHER -> s

\* order.batch_denom.split("-").slice(0, 1).join("")
classIdOf(batchDenom) ==
    CASE batchDenom = "C01-001-2026" -> "C01"
      [] batchDenom = "BT01-001-2026" -> "BT01"
      [] batchDenom = "KSH01-001-2026" -> "KSH01"
      [] OTHER -> batchDenom

\* listCreditClasses(): class id and credit_type_abbrev.
CreditClasses ==
    <<[id |-> "C01", credit_type_abbrev |-> "C"],
      [id |-> "BT01", credit_type_abbrev |-> "BT"]>>

\* classTypeMap.get(classId), "" when the class is not listed.
classTypeOf(classId) ==
    IF \E i \in DOMAIN CreditClasses : CreditClasses[i].id = classId
    THEN (CHOOSE c \in {CreditClasses[i] : i \in DOMAIN CreditClasses} : c.id = classId).credit_type_abbrev
    ELSE ""

Uregen == [bank_denom |-> "uregen", display_denom |-> "REGEN", exponent |-> 6]
Uusdc == [bank_denom |-> "uusdc", display_denom |-> "USDC", exponent |-> 6]

\* A sell order as listSellOrders() returns it; expiration 0 is null,
\* otherwise a time on the clock of Clocks.
SellOrder(id, batchDenom, quantity, askDenom, askAmount, disabled, expiration) ==
    [id |-> id, batch_denom |-> batchDenom, quantity |-> quantity,
     ask_denom |-> askDenom, ask_amount |-> askAmount,
     disable_auto_retire |-> disabled, expiration |-> expiration]

Clocks == {2}

OrderCatalog ==
    { SellOrder("base", "C01-001-2026", "2", "uregen", "1000", FALSE, 0),
      SellOrder("base2", "C01-001-2026", "0.5", "uregen", "1000", FALSE, 0),
      SellOrder("mid", "C01-001-2026", "2", "uregen", "700", FALSE, 0),
      SellOrder("cheap", "C01-001-2026", "0.5", "uregen", "3", FALSE, 0),
      SellOrder("dust", "C01-001-2026", "0.000001", "uregen", "3", FALSE, 0),
      SellOrder("subdust", "C01-001-2026", "0.0000001", "uregen", "3", FALSE, 0),
      SellOrder("empty", "C01-001-2026", "0", "uregen", "3", FALSE, 0),
      SellOrder("nanqty", "C01-001-2026", "abc", "uregen", "3", FALSE, 0),
      SellOrder("free", "C01-001-2026", "2", "uregen", "0", FALSE, 0),
      SellOrder("negative", "C01-001-2026", "2", "uregen", "-5", FALSE, 0),
      SellOrder("badprice", "C01-001-2026", "2", "uregen", "abc", FALSE, 0),
      SellOrder("noauto", "C01-001-2026", "2", "uregen", "3", TRUE, 0),
      SellOrder("usdc", "C01-001-2026", "2", "uusdc", "700", FALSE, 0),
      SellOrder("expired", "C01-001-2026", "2", "uregen", "3", FALSE, 1),
      SellOrder("expiring", "C01-001-2026", "2", "uregen", "3", FALSE, 2),
      SellOrder("future", "C01-001-2026", "0.5", "uregen", "700", FALSE, 3),
      SellOrder("bio", "BT01-001-2026", "2", "uregen", "3", FALSE, 0),
      SellOrder("unknown", "KSH01-001-2026", "2", "uregen", "3", FALSE, 0) }

\* Order books: up to MaxOrders different orders, in listing order.
Listings ==
    UNION {{l \in [1..n -> OrderCatalog] : \A i, j \in 1..n : l[i] = l[j] => i = j}
             : n \in 0..MaxOrders}

\* creditType ("" when not given), preferredDenom ("" when not given) and
\* what getAllowedDenoms() returns.
Requests ==
    { [creditType |-> "carbon", preferredDenom |-> "", allowedDenoms |-> <<Uregen, Uusdc>>],
      [creditType |-> "", preferredDenom |-> "", allowedDenoms |-> <<Uusdc, Uregen>>],
      [creditType |-> "biodiversity", preferredDenom |-> "", allowedDenoms |-> <<Uregen, Uusdc>>],
      [creditType |-> "carbon", preferredDenom |-> "USDC", allowedDenoms |-> <<Uregen, Uusdc>>],
      [creditType |-> "carbon", preferredDenom |-> "EEUR", allowedDenoms |-> <<Uusdc>>],
      [creditType |-> "carbon", preferredDenom |-> "uusdc", allowedDenoms |-> <<>>] }

\* allowedDenoms.find(...): the first of the matching positions, as a
\* sequence of length <= 1.
findFirst(seq, hits) ==
    IF hits = {} THEN <<>>
    ELSE <<seq[CHOOSE i \in hits : \A j \in hits : i <= j]>>

\* pickDenom(allowedDenoms, preferred)
pickDenom(allowedDenoms, preferred) ==
    LET isPreferred(d) == \/ toLowerCase(d.bank_denom) = toLowerCase(preferred)
                          \/ toLowerCase(d.display_denom) = toLowerCase(preferred)
        isRegen(d) == d.display_denom = "REGEN" \/ d.bank_denom = "uregen"
        where(pred(_)) == {i \in DOMAIN allowedDenoms : pred(allowedDenoms[i])}
        match == IF preferred /= "" THEN findFirst(allowedDenoms, where(isPreferred))
                 ELSE <<>>
        regen == findFirst(allowedDenoms, where(isRegen))
        pick == IF match /= <<>> THEN match[1]
                ELSE IF regen /= <<>> THEN regen[1]
                ELSE IF Len(allowedDenoms) > 0 THEN allowedDenoms[1]
                ELSE Uregen
    IN [bankDenom |-> pick.bank_denom, displayDenom |-> pick.display_denom,
        exponent |-> pick.exponent]

\* toMicroQuantityString(microQuantity): whole part, "." and the fraction
\* padded at the start to 6 digits.
toMicroQuantityString(microQuantity) ==
    [whole |-> microQuantity \div MICRO_CREDITS,
     frac |-> [i \in 1..6 |-> ((microQuantity % MICRO_CREDITS) \div (10 ^ (6 - i))) % 10]]

\* The filter of sellOrders.filter(...): TRUE for the orders that are kept.
isEligible_ExpiryIgnored(order, creditType, bankDenom, now) ==
    LET abbrev == classTypeOf(classIdOf(order.batch_denom))
    IN /\ ~order.disable_auto_retire
       /\ order.ask_denom = bankDenom
       /\ creditType /= "" =>
            /\ abbrev /= ""
            /\ creditType = "carbon" => abbrev = "C"
            /\ creditType = "biodiversity" => abbrev /= "C"

isEligible(order, creditType, bankDenom, now) ==
    LET abbrev == classTypeOf(classIdOf(order.batch_denom))
    IN /\ ~order.disable_auto_retire
       /\ order.ask_denom = bankDenom
       /\ creditType /= "" =>
            /\ abbrev /= ""
            /\ creditType = "carbon" => abbrev = "C"
            /\ creditType = "biodiversity" => abbrev /= "C"
       /\ order.expiration /= 0 => ~(order.expiration <= now)

filterEligible(sellOrders, creditType, bankDenom, now) ==
    LET keep(order) == isEligible(order, creditType, bankDenom, now)
    IN SelectSeq(sellOrders, keep)

\* The comparator of eligible.sort: negative when a sorts before b.
comparePrice_Descending(a, b) ==
    LET aPrice == BigIntOf(a.ask_amount).v
        bPrice == BigIntOf(b.ask_amount).v
    IN IF aPrice > bPrice THEN -1 ELSE IF aPrice < bPrice THEN 1 ELSE 0

comparePrice(a, b) ==
    LET aPrice == BigIntOf(a.ask_amount).v
        bPrice == BigIntOf(b.ask_amount).v
    IN IF aPrice < bPrice THEN -1 ELSE IF aPrice > bPrice THEN 1 ELSE 0

\* The comparator calls BigInt on both orders: with two or more orders to
\* sort, an ask_amount that is no integer makes the sort throw.
sortThrows(eligible) ==
    Len(eligible) >= 2 /\ \E i \in DOMAIN eligible : ~BigIntOf(eligible[i].ask_amount).ok

\* Array.prototype.sort with comparePrice (a stable sort).
RECURSIVE insertByPrice(_, _)
insertByPrice(sorted, order) ==
    IF sorted = <<>> THEN <<order>>
    ELSE IF comparePrice(order, sorted[1]) < 0 THEN <<order>> \o sorted
    ELSE <<sorted[1]>> \o insertByPrice(Tail(sorted), order)

RECURSIVE sortByPrice(_)
sortByPrice(eligible) ==
    IF eligible = <<>> THEN <<>>
    ELSE insertByPrice(sortByPrice(SubSeq(eligible, 1, Len(eligible) - 1)),
                       eligible[Len(eligible)])

Min(a, b) == IF a < b THEN a ELSE b

BudgetSelectedOrder(order, takeMicro, costMicro) ==
    [sellOrderId |-> order.id, batchDenom |-> order.batch_denom,
     quantity |-> toMicroQuantityString(takeMicro),
     askAmount |-> order.ask_amount, askDenom |-> order.ask_denom,
     costMicro |-> costMicro]

\* One pass of the body of "for (const order of eligible)" in budget mode.
budgetStep_BudgetNotReduced(acc, order) ==
    LET available == parseFloatMicro(order.quantity)
        price == BigIntOf(order.ask_amount)
        affordableMicro == (acc.remainingBudget * MICRO_CREDITS) \div price.v
        takeMicro == Min(available.micro, affordableMicro)
        costMicro == (price.v * takeMicro + MICRO_CREDITS - 1) \div MICRO_CREDITS
    IN IF acc.threw \/ acc.remainingBudget <= 0 THEN acc
       ELSE IF ~available.finite \/ ~available.positive THEN acc
       ELSE IF available.micro <= 0 THEN acc
       ELSE IF ~price.ok THEN [acc EXCEPT !.threw = TRUE]
       ELSE IF price.v <= 0 THEN acc
       ELSE IF affordableMicro <= 0 THEN acc
       ELSE IF takeMicro <= 0 THEN acc
       ELSE IF costMicro <= 0 \/ costMicro > acc.remainingBudget THEN acc
       ELSE [acc EXCEPT
               !.selected = Append(@, BudgetSelectedOrder(order, takeMicro, costMicro)),
               !.totalQuantityMicro = @ + takeMicro,
               !.totalCostMicro = @ + costMicro]

budgetStep(acc, order) ==
    LET available == parseFloatMicro(order.quantity)
        price == BigIntOf(order.ask_amount)
        affordableMicro == (acc.remainingBudget * MICRO_CREDITS) \div price.v
        takeMicro == Min(available.micro, affordableMicro)
        costMicro == (price.v * takeMicro + MICRO_CREDITS - 1) \div MICRO_CREDITS
    IN IF acc.threw \/ acc.remainingBudget <= 0 THEN acc
       ELSE IF ~available.finite \/ ~available.positive THEN acc
       ELSE IF available.micro <= 0 THEN acc
       ELSE IF ~price.ok THEN [acc EXCEPT !.threw = TRUE]
       ELSE IF price.v <= 0 THEN acc
       ELSE IF affordableMicro <= 0 THEN acc
       ELSE IF takeMicro <= 0 THEN acc
       ELSE IF costMicro <= 0 \/ costMicro > acc.remainingBudget THEN acc
       ELSE [acc EXCEPT
               !.selected = Append(@, BudgetSelectedOrder(order, takeMicro, costMicro)),
               !.totalQuantityMicro = @ + takeMicro,
               !.totalCostMicro = @ + costMicro,
               !.remainingBudget = @ - costMicro]

RECURSIVE budgetFill(_, _)
budgetFill(orders, acc) ==
    IF orders = <<>> THEN acc ELSE budgetFill(Tail(orders), budgetStep(acc, orders[1]))

NoOrders ==
    [done |-> FALSE, threw |-> FALSE, orders |-> <<>>,
     totalQuantity |-> toMicroQuantityString(0), totalCostMicro |-> 0,
     remainingBudgetMicro |-> 0, paymentDenom |-> "", displayDenom |-> "",
     exhaustedBudget |-> FALSE, insufficientSupply |-> FALSE]

\* selectOrdersForBudget(creditType, budgetMicro, preferredDenom) over what
\* the ledger returned and the clock; threw = TRUE when it rejects.
selectOrdersForBudget(creditType, budgetMicro, preferredDenom, sellOrders, allowedDenoms, now) ==
    LET denomInfo == pickDenom(allowedDenoms, preferredDenom)
        eligible == filterEligible(sellOrders, creditType, denomInfo.bankDenom, now)
        fill == budgetFill(sortByPrice(eligible),
                           [threw |-> FALSE, selected |-> <<>>, totalQuantityMicro |-> 0,
                            totalCostMicro |-> 0, remainingBudget |-> budgetMicro])
        thrown == [NoOrders EXCEPT !.done = TRUE, !.threw = TRUE]
    IN IF budgetMicro <= 0 THEN thrown
       ELSE IF sortThrows(eligible) THEN thrown
       ELSE IF fill.threw THEN thrown
       ELSE [NoOrders EXCEPT
               !.done = TRUE,
               !.orders = fill.selected,
               !.totalQuantity = toMicroQuantityString(fill.totalQuantityMicro),
               !.totalCostMicro = fill.totalCostMicro,
               !.remainingBudgetMicro = fill.remainingBudget,
               !.paymentDenom = denomInfo.bankDenom,
               !.displayDenom = denomInfo.displayDenom,
               !.exhaustedBudget = (fill.remainingBudget = 0)]

\* Quantity mode: take full orders, cheapest first, and cap the last take so
\* that the running total is exactly the target.
quantityStep(acc, order) ==
    LET availableMicro == parseFloatMicro(order.quantity).micro
        price == BigIntOf(order.ask_amount).v
        takeMicro == Min(availableMicro, acc.remainingMicro)
        costMicro == (price * takeMicro + MICRO_CREDITS - 1) \div MICRO_CREDITS
    IN IF acc.remainingMicro <= 0 THEN acc
       ELSE [acc EXCEPT
               !.selected = Append(@, BudgetSelectedOrder(order, takeMicro, costMicro)),
               !.totalQuantityMicro = @ + takeMicro,
               !.totalCostMicro = @ + costMicro,
               !.remainingMicro = @ - takeMicro]

RECURSIVE quantityFill(_, _)
quantityFill(orders, acc) ==
    IF orders = <<>> THEN acc ELSE quantityFill(Tail(orders), quantityStep(acc, orders[1]))

\* insufficientSupply of a finished quantity fill.
insufficientSupply_WhenAllTaken(fill, eligible, targetMicro) ==
    Len(fill.selected) = Len(eligible)

insufficientSupply(fill, eligible, targetMicro) ==
    fill.totalQuantityMicro < targetMicro

\* selectBestOrders(creditType, targetQuantity, preferredDenom), the target
\* in micro-credits.
selectBestOrders(creditType, targetMicro, preferredDenom, sellOrders, allowedDenoms, now) ==
    LET denomInfo == pickDenom(allowedDenoms, preferredDenom)
        eligible == filterEligible(sellOrders, creditType, denomInfo.bankDenom, now)
        fill == quantityFill(sortByPrice(eligible),
                             [selected |-> <<>>, totalQuantityMicro |-> 0,
                              totalCostMicro |-> 0, remainingMicro |-> targetMicro])
    IN [NoOrders EXCEPT
          !.done = TRUE,
          !.orders = fill.selected,
          !.totalQuantity = toMicroQuantityString(fill.totalQuantityMicro),
          !.totalCostMicro = fill.totalCostMicro,
          !.paymentDenom = denomInfo.bankDenom,
          !.displayDenom = denomInfo.displayDenom,
          !.insufficientSupply = insufficientSupply(fill, eligible, targetMicro)]

\* Target quantities, in micro-credits.
TargetsMicro == {1, 500000, 2000000, 2500000, 4000000}

\* Orders on sale with a quantity above zero and a price above zero.
OpenOrder(order) ==
    /\ parseFloatMicro(order.quantity).micro > 0
    /\ BigIntOf(order.ask_amount).ok /\ BigIntOf(order.ask_amount).v > 0

NoOrderInput ==
    [mode |-> "", creditType |-> "", amount |-> 0, preferredDenom |-> "",
     sellOrders |-> <<>>, allowedDenoms |-> <<>>, now |-> 0]

OrdInit ==
    /\ ordIn = NoOrderInput
    /\ ordOut = NoOrders

\* One selectOrdersForBudget call.
SelectForBudget ==
    /\ ~ordOut.done
    /\ \E req \in Requests, sellOrders \in Listings, budgetMicro \in 0..MaxBudgetMicro,
          now \in Clocks :
         /\ ordIn' = [mode |-> "budget", creditType |-> req.creditType,
                      amount |-> budgetMicro, preferredDenom |-> req.preferredDenom,
                      sellOrders |-> sellOrders, allowedDenoms |-> req.allowedDenoms,
                      now |-> now]
         /\ ordOut' = selectOrdersForBudget(req.creditType, budgetMicro, req.preferredDenom,
                                            sellOrders, req.allowedDenoms, now)
    /\ UNCHANGED ordOthers

\* One selectBestOrders call.
SelectBest ==
    /\ ~ordOut.done
    /\ \E req \in Requests, sellOrders \in Listings, targetMicro \in TargetsMicro,
          now \in Clocks :
         /\ \A i \in DOMAIN sellOrders : OpenOrder(sellOrders[i])
         /\ ordIn' = [mode |-> "quantity", creditType |-> req.creditType,
                      amount |-> targetMicro, preferredDenom |-> req.preferredDenom,
                      sellOrders |-> sellOrders, allowedDenoms |-> req.allowedDenoms,
                      now |-> now]
         /\ ordOut' = selectBestOrders(req.creditType, targetMicro, req.preferredDenom,
                                       sellOrders, req.allowedDenoms, now)
    /\ UNCHANGED ordOthers

OrdNext == SelectForBudget \/ SelectBest

\* ------------------------------------------------------------------------
\* Part 6: auth sessions and recovery (auth/service.ts over the auth store)
\* ------------------------------------------------------------------------

MaxSessions == 1
MaxRecoveries == 1
MaxClock == 2
\* deps.sessionTtlSeconds, deps.recoveryTtlSeconds, deps.maxVerificationAttempts
SessionTtl == 1
RecoveryTtl == 2
MaxAttempts == 2

AllowedOauthProviders == {"google", "github"}

\* normalizeEmail(value): trimmed and lower-cased, "" for undefined.
normalizeEmail(value) ==
    CASE value = "ALICE@Example.com" -> "alice@example.com"
      [] value = " alice@example.com " -> "alice@example.com"
      [] value = "  " -> ""
      [] OTHER -> value

\* EMAIL_PATTERN.test(email)
matchesEmailPattern(email) == email \in {"alice@example.com"}

EmailInputs == {"ALICE@Example.com", "not-an-email", "  "}

\* The 6-digit codes: what createEmailCode() draws, and what /^\d{6}$/ admits.
Codes == {"000000", "123456"}

IssuedCodes == {"123456"}

\* What callers present as verification_code.
CodeInputs == Codes \cup {"12345"}

\* hash(`${code}:${email}`): sha256 over secret, code and email, kept as the
\* pair it was computed from (no collisions).
hashCode(code, email) == [code |-> code, email |-> email]

NoHash == [code |-> "", email |-> ""]

\* sign(payload): the HMAC of the payload under the service secret.
sign(sid, exp) == [key |-> "secret", sid |-> sid, exp |-> exp]

\* issueOauthStateToken({sessionId, expiresAt}): payload "." signature.
issueOauthStateToken(sid, exp) == [sid |-> sid, exp |-> exp, sig |-> sign(sid, exp)]

NoToken == [sid |-> 0, exp |-> 0, sig |-> [key |-> "", sid |-> 0, exp |-> 0]]

\* isExpired(now, expiresAt)
isExpired(now, expiresAt) == expiresAt <= now

\* The auth state file: defaultState() until first written.
defaultAuthState == [sessions |-> <<>>, links |-> <<>>, recoveries |-> <<>>]

\* An AuthSessionRecord; absent optional fields are "", -1, NoHash, NoToken.
\* recoveredWith is 0, or the recovery token the session was created with.
AuthSessionRecord(id, method, status, now, email, provider, maxAttempts) ==
    [id |-> id, method |-> method, status |-> status,
     createdAt |-> now, expiresAt |-> now + SessionTtl, verifiedAt |-> -1,
     beneficiaryEmail |-> email, authProvider |-> provider, authSubject |-> "",
     emailCodeHash |-> NoHash, oauthStateToken |-> NoToken,
     verificationAttempts |-> 0, maxVerificationAttempts |-> maxAttempts,
     recoveredWith |-> 0]

\* captureIdentity of the session's email, provider and subject (sessions
\* carry no beneficiaryName here): the error thrown, or the authMethod.
captureIdentity(session) ==
    IF session.beneficiaryEmail /= "" /\ ~matchesEmailPattern(session.beneficiaryEmail)
    THEN [error |-> "Invalid beneficiary_email format", authMethod |-> "none"]
    ELSE IF (session.authProvider /= "") /= (session.authSubject /= "")
    THEN [error |-> "auth_provider and auth_subject must be provided together",
          authMethod |-> "none"]
    ELSE IF session.authProvider /= "" THEN [error |-> "", authMethod |-> "oauth"]
    ELSE IF session.beneficiaryEmail /= "" THEN [error |-> "", authMethod |-> "email"]
    ELSE [error |-> "", authMethod |-> "none"]

\* buildIdentityFromSession(session): the error thrown, "" when an identity
\* is returned.
buildIdentityFromSession(session) ==
    LET identity == captureIdentity(session)
    IN IF identity.error /= "" THEN identity.error
       ELSE IF identity.authMethod = "none"
            THEN "Verified auth session has no identity payload"
       ELSE ""

\* The outcome of a service call: the error thrown ("" for none) and the
\* state the store holds afterwards.
Outcome(error, state) == [error |-> error, state |-> state]

\* state.sessions.find((item) => item.id === sessionId): its index, 0 if none.
findSession(state, sessionId) ==
    IF \E i \in DOMAIN state.sessions : state.sessions[i].id = sessionId
    THEN CHOOSE i \in DOMAIN state.sessions : state.sessions[i].id = sessionId
    ELSE 0

\* mutateSessionStatusForTime(session)
mutateSessionStatusForTime_Never(session, now) == session

mutateSessionStatusForTime_Recomputed(session, now) ==
    [session EXCEPT !.status = IF isExpired(now, session.expiresAt) THEN "expired"
                               ELSE "pending"]

mutateSessionStatusForTime_AnyStatus(session, now) ==
    IF isExpired(now, session.expiresAt)
    THEN [session EXCEPT !.status = "expired"]
    ELSE session

mutateSessionStatusForTime(session, now) ==
    IF session.status = "pending" /\ isExpired(now, session.expiresAt)
    THEN [session EXCEPT !.status = "expired"]
    ELSE session

\* ensureVerifiableSession(session, method) after the status was mutated for
\* time: the error it throws, "" when it returns.
ensureVerifiableSession_LockedIgnored(session, method) ==
    IF session.method /= method THEN "Auth session method mismatch"
    ELSE IF session.status = "expired" THEN "Auth session is expired"
    ELSE IF session.status = "verified" THEN "Auth session is already verified"
    ELSE ""

ensureVerifiableSession(session, method) ==
    IF session.method /= method THEN "Auth session method mismatch"
    ELSE IF session.status = "locked"
         THEN "Auth session is locked after too many failed attempts"
    ELSE IF session.status = "expired" THEN "Auth session is expired"
    ELSE IF session.status = "verified" THEN "Auth session is already verified"
    ELSE ""

\* startEmailAuth({beneficiaryEmail}) with the code createEmailCode() drew.
startEmailAuth(state, beneficiaryEmail, code, now) ==
    LET email == normalizeEmail(beneficiaryEmail)
        session == [AuthSessionRecord(Len(state.sessions) + 1, "email", "pending", now,
                                      email, "", MaxAttempts)
                      EXCEPT !.emailCodeHash = hashCode(code, email)]
    IN IF email = "" \/ ~matchesEmailPattern(email)
       THEN Outcome("beneficiary_email must be a valid email", state)
       ELSE Outcome("", [state EXCEPT !.sessions = Append(@, session)])

\* verifyEmailAuth({sessionId, verificationCode})
verifyEmailAuth(state, sessionId, code, now) ==
    LET i == findSession(state, sessionId)
        session == mutateSessionStatusForTime(state.sessions[i], now)
        refused == ensureVerifiableSession(session, "email")
        failed == [session EXCEPT
                     !.verificationAttempts = @ + 1,
                     !.status = IF session.verificationAttempts + 1
                                      >= session.maxVerificationAttempts
                                THEN "locked" ELSE @]
        verified == [session EXCEPT !.status = "verified", !.verifiedAt = now]
    IN IF code \notin Codes THEN Outcome("verification_code must be a 6-digit code", state)
       ELSE IF i = 0 THEN Outcome("Unknown auth session", state)
       ELSE IF refused /= "" THEN Outcome(refused, state)
       ELSE IF session.beneficiaryEmail = "" \/ session.emailCodeHash = NoHash
            THEN Outcome("Email auth session is missing challenge data", state)
       ELSE IF hashCode(code, session.beneficiaryEmail) /= session.emailCodeHash
            THEN Outcome("Invalid verification_code",
                         [state EXCEPT !.sessions[i] = failed])
       ELSE Outcome(buildIdentityFromSession(verified),
                    [state EXCEPT !.sessions[i] = verified])

\* startOAuthAuth({authProvider})
startOAuthAuth(state, provider, now) ==
    LET id == Len(state.sessions) + 1
        session == [AuthSessionRecord(id, "oauth", "pending", now, "", provider, MaxAttempts)
                      EXCEPT !.oauthStateToken = issueOauthStateToken(id, now + SessionTtl)]
    IN IF provider = "" THEN Outcome("auth_provider is required", state)
       ELSE IF provider \notin AllowedOauthProviders
            THEN Outcome("Unsupported auth_provider", state)
       ELSE Outcome("", [state EXCEPT !.sessions = Append(@, session)])

\* validateOauthStateToken(session, token): the error it throws, "" for none.
validateOauthStateToken(session, token, now) ==
    IF token.sig /= sign(token.sid, token.exp) THEN "Invalid oauth_state_token signature"
    ELSE IF token.sid = 0 \/ token.sid /= session.id
         THEN "oauth_state_token session mismatch"
    ELSE IF isExpired(now, token.exp) THEN "oauth_state_token is expired"
    ELSE ""

\* verifyOAuthAuth({sessionId, oauthStateToken, authProvider, authSubject})
verifyOAuthAuth(state, sessionId, token, provider, subject, now) ==
    LET i == findSession(state, sessionId)
        session == mutateSessionStatusForTime(state.sessions[i], now)
        refused == ensureVerifiableSession(session, "oauth")
        invalid == validateOauthStateToken(session, token, now)
        verified == [session EXCEPT !.authSubject = subject, !.status = "verified",
                                    !.verifiedAt = now]
    IN IF i = 0 THEN Outcome("Unknown auth session", state)
       ELSE IF refused /= "" THEN Outcome(refused, state)
       ELSE IF session.authProvider /= provider THEN Outcome("OAuth provider mismatch", state)
       ELSE IF session.oauthStateToken = NoToken
            THEN Outcome("OAuth session is missing oauth_state_token", state)
       ELSE IF invalid /= "" THEN Outcome(invalid, state)
       ELSE Outcome(buildIdentityFromSession(verified),
                    [state EXCEPT !.sessions[i] = verified])

\* getSession(sessionId): null ("Unknown auth session" here) or the session.
getSession(state, sessionId, now) ==
    LET i == findSession(state, sessionId)
    IN IF i = 0 THEN Outcome("Unknown auth session", state)
       ELSE Outcome("", [state EXCEPT
                           !.sessions[i] = mutateSessionStatusForTime(@, now)])

\* normalize(input.userId): trimmed, "" for undefined.
normalizeUserId(value) ==
    CASE value = " user_123 " -> "user_123"
      [] value = "  " -> ""
      [] OTHER -> value

UserIdInputs == {"user_123", " user_123 ", "user_456", "user_789", "  "}

\* The links after Object.assign(existing, linked) on the first link of the
\* user, or after links.push(linked) when the user has none.
assignOrPush_AlwaysPush(links, linked) == Append(links, linked)

assignOrPush(links, linked) ==
    LET found == {k \in DOMAIN links : links[k].userId = linked.userId}
    IN IF found = {} THEN Append(links, linked)
       ELSE [links EXCEPT ![CHOOSE k \in found : \A j \in found : k <= j] = linked]

\* linkSessionToUser({sessionId, userId})
linkSessionToUser(state, sessionId, rawUserId, now) ==
    LET userId == normalizeUserId(rawUserId)
        i == findSession(state, sessionId)
        session == mutateSessionStatusForTime(state.sessions[i], now)
        linked == [userId |-> userId, sessionId |-> session.id]
    IN IF userId = "" THEN Outcome("user_id is required", state)
       ELSE IF i = 0 THEN Outcome("Unknown auth session", state)
       ELSE IF session.status /= "verified"
            THEN Outcome("Auth session must be verified before linking", state)
       ELSE Outcome("", [state EXCEPT
               !.sessions[i] = session,
               !.links = assignOrPush(state.links, linked)])

\* resolveVerifiedIdentity(sessionId)
resolveVerifiedIdentity(state, sessionId, now) ==
    LET i == findSession(state, sessionId)
        session == mutateSessionStatusForTime(state.sessions[i], now)
    IN IF i = 0 THEN Outcome("Unknown auth session", state)
       ELSE Outcome(IF session.status /= "verified"
                    THEN "auth_session_id is not verified"
                    ELSE buildIdentityFromSession(session),
                    [state EXCEPT !.sessions[i] = session])

\* hash(recoveryToken) of the token of the n-th startRecovery; the tokens are
\* random and differ from each other.
hashToken(token) == [token |-> token]

\* startRecovery({beneficiaryEmail}): the source is the verified session of
\* that email created last (the first of them in the file among equals).
startRecovery(state, beneficiaryEmail, now) ==
    LET email == normalizeEmail(beneficiaryEmail)
        verified == {i \in DOMAIN state.sessions :
                        /\ state.sessions[i].status = "verified"
                        /\ state.sessions[i].beneficiaryEmail = email}
        source == CHOOSE i \in verified :
                     \A j \in verified :
                        \/ state.sessions[j].createdAt < state.sessions[i].createdAt
                        \/ state.sessions[j].createdAt = state.sessions[i].createdAt /\ i <= j
        token == Len(state.recoveries) + 1
        record == [id |-> token, tokenHash |-> hashToken(token),
                   sessionId |-> state.sessions[source].id, beneficiaryEmail |-> email,
                   createdAt |-> now, expiresAt |-> now + RecoveryTtl, consumedAt |-> -1]
    IN IF email = "" \/ ~matchesEmailPattern(email)
       THEN Outcome("beneficiary_email must be a valid email", state)
       ELSE IF verified = {} THEN Outcome("No verified auth session found for this email", state)
       ELSE Outcome("", [state EXCEPT !.recoveries = Append(@, record)])

\* The checks of recoverWithToken on the recovery it found: the error
\* thrown, "" for none.
recoveryRefused_ConsumedIgnored(recovery, now) ==
    IF isExpired(now, recovery.expiresAt) THEN "recovery_token is expired" ELSE ""

recoveryRefused(recovery, now) ==
    IF recovery.consumedAt /= -1 THEN "recovery_token has already been used"
    ELSE IF isExpired(now, recovery.expiresAt) THEN "recovery_token is expired"
    ELSE ""

\* recoverWithToken({recoveryToken}); token 0 stands for an empty string.
recoverWithToken(state, token, now) ==
    LET found == {r \in DOMAIN state.recoveries :
                     state.recoveries[r].tokenHash = hashToken(token)}
        r == CHOOSE x \in found : \A y \in found : x <= y
        recovery == state.recoveries[r]
        refused == recoveryRefused(recovery, now)
        i == findSession(state, recovery.sessionId)
        source == state.sessions[i]
        recovered == [AuthSessionRecord(Len(state.sessions) + 1, source.method, "verified",
                                        now, source.beneficiaryEmail, source.authProvider,
                                        MaxAttempts)
                        EXCEPT !.verifiedAt = now, !.authSubject = source.authSubject,
                               !.recoveredWith = token]
    IN IF token = 0 THEN Outcome("recovery_token is required", state)
       ELSE IF found = {} THEN Outcome("Invalid recovery_token", state)
       ELSE IF refused /= "" THEN Outcome(refused, state)
       ELSE IF i = 0 THEN Outcome("Unknown auth session", state)
       ELSE IF source.status /= "verified"
            THEN Outcome("Recovery source session is not verified", state)
       ELSE Outcome("", [state EXCEPT
                           !.recoveries[r].consumedAt = now,
                           !.sessions = Append(@, recovered)])

\* ---- the calls, one action each; every call reads the store, and writes
\* ---- it where the code reaches writeState.

AuthInit ==
    /\ authStore = defaultAuthState
    /\ authNow = 0
    /\ recoverLog = <<>>

\* Session ids callers present: ids that were issued and ids that were not.
SessionIds == 1..(MaxSessions + 1)

Started == {i \in DOMAIN authStore.sessions : authStore.sessions[i].recoveredWith = 0}

Recovered == DOMAIN authStore.sessions \ Started

\* Room for one more started session (a call that fails adds none).
Room(out) == out.error /= "" \/ Cardinality(Started) < MaxSessions

\* Room for one more recovered session.
RoomToRecover(out) == out.error /= "" \/ Cardinality(Recovered) <= MaxRecoveries

StartEmailAuth ==
    /\ \E beneficiaryEmail \in EmailInputs, code \in IssuedCodes :
         LET out == startEmailAuth(authStore, beneficiaryEmail, code, authNow)
         IN /\ Room(out)
            /\ authStore' = out.state
    /\ UNCHANGED <<authNow, recoverLog>>
    /\ UNCHANGED authOthers

VerifyEmailAuth ==
    /\ \E sessionId \in SessionIds, code \in CodeInputs :
         LET out == verifyEmailAuth(authStore, sessionId, code, authNow)
         IN /\ authStore' = out.state
    /\ UNCHANGED <<authNow, recoverLog>>
    /\ UNCHANGED authOthers

StartOAuthAuth ==
    /\ \E provider \in {"google", "discord", ""} :
         LET out == startOAuthAuth(authStore, provider, authNow)
         IN /\ Room(out)
            /\ authStore' = out.state
    /\ UNCHANGED <<authNow, recoverLog>>
    /\ UNCHANGED authOthers

\* The oauth_state_tokens callers present: the ones issued, and a token for
\* the session that is signed with another key.
PresentedTokens(sessionId) ==
    {authStore.sessions[i].oauthStateToken : i \in DOMAIN authStore.sessions}
       \cup {[issueOauthStateToken(sessionId, authNow + SessionTtl) EXCEPT !.sig.key = "other"]}

VerifyOAuthAuth ==
    /\ \E sessionId \in SessionIds, provider \in AllowedOauthProviders :
       \E token \in PresentedTokens(sessionId) :
         LET out == verifyOAuthAuth(authStore, sessionId, token, provider, "sub-1", authNow)
         IN /\ authStore' = out.state
    /\ UNCHANGED <<authNow, recoverLog>>
    /\ UNCHANGED authOthers

GetSession ==
    /\ \E sessionId \in SessionIds :
         LET out == getSession(authStore, sessionId, authNow)
         IN /\ authStore' = out.state
    /\ UNCHANGED <<authNow, recoverLog>>
    /\ UNCHANGED authOthers

LinkSessionToUser ==
    /\ \E sessionId \in SessionIds :
         LET out == linkSessionToUser(authStore, sessionId, "user_123", authNow)
         IN /\ authStore' = out.state
    /\ UNCHANGED <<authNow, recoverLog>>
    /\ UNCHANGED authOthers

\* linkSessionToUser for several users, each user id also with blanks
\* around it.
LinkSessionToAnyUser ==
    /\ \E sessionId \in SessionIds, userId \in UserIdInputs :
         LET out == linkSessionToUser(authStore, sessionId, userId, authNow)
         IN /\ authStore' = out.state
    /\ UNCHANGED <<authNow, recoverLog>>
    /\ UNCHANGED authOthers

ResolveVerifiedIdentity ==
    /\ \E sessionId \in SessionIds :
         LET out == resolveVerifiedIdentity(authStore, sessionId, authNow)
         IN /\ authStore' = out.state
    /\ UNCHANGED <<authNow, recoverLog>>
    /\ UNCHANGED authOthers

StartRecovery ==
    /\ Len(authStore.recoveries) < MaxRecoveries
    /\ \E beneficiaryEmail \in EmailInputs :
         LET out == startRecovery(authStore, beneficiaryEmail, authNow)
         IN /\ authStore' = out.state
            /\ recoverLog' = IF out.error = ""
                             THEN Append(recoverLog, [called |-> FALSE, succeeded |-> 0])
                             ELSE recoverLog
    /\ UNCHANGED authNow
    /\ UNCHANGED authOthers

RecoverWithToken ==
    /\ \E token \in 0..MaxRecoveries :
         LET out == recoverWithToken(authStore, token, authNow)
         IN /\ RoomToRecover(out)
            /\ authStore' = out.state
            /\ recoverLog' =
                 [r \in DOMAIN recoverLog |->
                    IF r = token
                    THEN [called |-> TRUE,
                          succeeded |-> recoverLog[r].succeeded + (IF out.error = "" THEN 1 ELSE 0)]
                    ELSE recoverLog[r]]
    /\ UNCHANGED authNow
    /\ UNCHANGED authOthers

\* The clock of deps.now() advances.
Tick ==
    /\ authNow < MaxClock
    /\ authNow' = authNow + 1
    /\ UNCHANGED <<authStore, recoverLog>>
    /\ UNCHANGED authOthers

AuthNext ==
    \/ StartEmailAuth \/ VerifyEmailAuth \/ StartOAuthAuth \/ VerifyOAuthAuth
    \/ GetSession \/ LinkSessionToUser \/ ResolveVerifiedIdentity
    \/ StartRecovery \/ RecoverWithToken \/ Tick

\* ------------------------------------------------------------------------
\* Part 7: the all-customer invoice walk (listPaidInvoicesAcrossCustomers)
\* ------------------------------------------------------------------------

MaxPagesCeiling == 50
MaxPagesFloor == 1
MaxPagesDefault == 10

\* options.maxPages: absent, a number that is not an integer (value is then
\* its integer part), or an integer.
AbsentNumber == [isNumber |-> FALSE, isInteger |-> FALSE, value |-> 0]

IntegerNumber(n) == [isNumber |-> TRUE, isInteger |-> TRUE, value |-> n]

MaxPagesInputs ==
    {AbsentNumber, [isNumber |-> TRUE, isInteger |-> FALSE, value |-> 2]}
       \cup {IntegerNumber(n) : n \in {-2, 0, 1, 3, 50, 51}}

Max(a, b) == IF a > b THEN a ELSE b

\* typeof maxPages === "number" && Number.isInteger(maxPages)
\*    ? Math.min(50, Math.max(1, maxPages)) : 10
clampMaxPages_NoCeiling(raw) ==
    IF raw.isNumber /\ raw.isInteger THEN Max(MaxPagesFloor, raw.value) ELSE MaxPagesDefault

clampMaxPages(raw) ==
    IF raw.isNumber /\ raw.isInteger
    THEN Min(MaxPagesCeiling, Max(MaxPagesFloor, raw.value))
    ELSE MaxPagesDefault

\* What GET /invoices answers for one page: the number of invoices on it that
\* normalizePaidInvoice keeps, whether the page had a last id, and has_more
\* (absent counts as false).
PageReplies ==
    { [kept |-> 1, lastId |-> TRUE, has_more |-> TRUE],
      [kept |-> 0, lastId |-> TRUE, has_more |-> TRUE],
      [kept |-> 0, lastId |-> FALSE, has_more |-> TRUE],
      [kept |-> 1, lastId |-> TRUE, has_more |-> FALSE],
      [kept |-> 0, lastId |-> FALSE, has_more |-> FALSE] }

\* for (let page = 0; page < maxPages; page += 1)
morePages(page, maxPages) == page < maxPages

NoWalk ==
    [pc |-> "idle", raw |-> AbsentNumber, maxPages |-> 0, page |-> 0, pageCount |-> 0,
     hasMore |-> FALSE, reachedEnd |-> FALSE, invoices |-> 0, truncated |-> FALSE]

WalkInit == walk = NoWalk

\* The walk returns {invoices, truncated: !reachedEnd, hasMore, pageCount, maxPages}.
walkReturn(w) == [w EXCEPT !.pc = "returned", !.truncated = ~w.reachedEnd]

\* listPaidInvoicesAcrossCustomers(options) up to its first request.
WalkCall ==
    /\ walk.pc = "idle"
    /\ \E raw \in MaxPagesInputs :
         LET started == [NoWalk EXCEPT !.raw = raw, !.maxPages = clampMaxPages(raw)]
         IN walk' = IF morePages(0, started.maxPages)
                    THEN [started EXCEPT !.pc = "fetching"]
                    ELSE walkReturn(started)
    /\ UNCHANGED walkOthers

\* One page is answered; the loop body runs up to the next request or to the
\* return.
FetchPage ==
    /\ walk.pc = "fetching"
    /\ \E reply \in PageReplies :
         LET got == [walk EXCEPT !.pageCount = @ + 1, !.invoices = @ + reply.kept,
                                 !.hasMore = reply.has_more]
         IN walk' = IF ~reply.has_more THEN walkReturn([got EXCEPT !.reachedEnd = TRUE])
                    ELSE IF ~reply.lastId THEN walkReturn(got)
                    ELSE IF morePages(got.page + 1, got.maxPages)
                         THEN [got EXCEPT !.page = @ + 1]
                    ELSE walkReturn([got EXCEPT !.page = @ + 1])
    /\ UNCHANGED walkOthers

\* stripeRequest throws (a transport error or a non-2xx answer): the walk
\* ends with the exception.
FetchFails ==
    /\ walk.pc = "fetching"
    /\ walk' = [walk EXCEPT !.pc = "threw", !.pageCount = @ + 1]
    /\ UNCHANGED walkOthers

WalkNext == WalkCall \/ FetchPage \/ FetchFails

\* ------------------------------------------------------------------------
\* Part 8: subscription pool sync (SubscriptionPoolSyncService.syncPaidInvoices)
\* ------------------------------------------------------------------------

MaxFetched == 2

\* PaidInvoice records as the subscription service returns them.
PaidInvoice(invoiceId, customerId, amountPaidCents, paidAt) ==
    [invoiceId |-> invoiceId, customerId |-> customerId,
     amountPaidCents |-> amountPaidCents, paidAt |-> paidAt]

InvoiceCatalog ==
    { PaidInvoice("in_march", "cus_123", 2, "2026-03-05T00:00:00.000Z"),
      PaidInvoice("in_march_b", "cus_456", 1, "2026-03-20T00:00:00.000Z"),
      PaidInvoice("in_april", "cus_123", 1, "2026-04-05T00:00:00.000Z") }

\* The invoice lists a fetch returns: up to MaxFetched invoices, none twice.
InvoiceLists ==
    UNION { {l \in [1..n -> InvoiceCatalog] : \A i, j \in 1..n : l[i] = l[j] => i = j}
            : n \in 0..MaxFetched }

\* paidAt.slice(0, 7)
slice7(paidAt) ==
    CASE paidAt = "2026-03-05T00:00:00.000Z" -> "2026-03"
      [] paidAt = "2026-03-20T00:00:00.000Z" -> "2026-03"
      [] paidAt = "2026-04-05T00:00:00.000Z" -> "2026-04"
      [] OTHER -> paidAt

Months == {"2026-03", "2026-04"}

\* normalize(input.month): trimmed, "" for undefined.
normalizeMonth(value) ==
    CASE value = " 2026-03 " -> "2026-03"
      [] value = "  " -> ""
      [] OTHER -> value

\* MONTH_REGEX.test(month)
matchesMonthRegex(month) == month \in Months

MonthInputs == {"", " 2026-03 ", "2026-04", "03-2026"}

\* What listPaidInvoicesAcrossCustomers returns: an object around the list.
AcrossCustomersResults ==
    { [invoices |-> l, truncated |-> t, hasMore |-> t] :
         l \in InvoiceLists, t \in BOOLEAN }

\* The inputs of a sync and what the subscription service returns for them:
\* a list for one customer, the object of the walk for all customers.
SyncInputs ==
    { [allCustomers |-> FALSE, customerId |-> c, month |-> m, list |-> l,
       truncated |-> FALSE, hasMore |-> FALSE] :
         c \in {"", "cus_123"}, m \in MonthInputs, l \in InvoiceLists }
    \cup
    { [allCustomers |-> TRUE, customerId |-> "", month |-> m, list |-> a.invoices,
       truncated |-> a.truncated, hasMore |-> a.hasMore] :
         m \in MonthInputs, a \in AcrossCustomersResults }

\* PoolAccountingService.recordContribution as one atomic call: the existing
\* contribution of the externalEventId with duplicate=true and no write, or
\* the appended one.
recordContribution_NoDedupe(state, input) ==
    LET record == [id |-> Len(state) + 1, externalEventId |-> input.externalEventId,
                   amountUsdCents |-> input.amountUsdCents,
                   month |-> slice7(input.contributedAt)]
    IN [state |-> Append(state, record), record |-> record, duplicate |-> FALSE]

recordContribution(state, input) ==
    LET existing == {i \in DOMAIN state :
                        /\ input.externalEventId /= ""
                        /\ state[i].externalEventId = input.externalEventId}
        record == [id |-> Len(state) + 1, externalEventId |-> input.externalEventId,
                   amountUsdCents |-> input.amountUsdCents,
                   month |-> slice7(input.contributedAt)]
    IN IF existing /= {}
       THEN [state |-> state, record |-> state[CHOOSE i \in existing : TRUE],
             duplicate |-> TRUE]
       ELSE [state |-> Append(state, record), record |-> record, duplicate |-> FALSE]

RECURSIVE sumAmountUsdCents(_, _)
sumAmountUsdCents(state, idx) ==
    IF idx = {} THEN 0
    ELSE LET i == CHOOSE j \in idx : TRUE
         IN state[i].amountUsdCents + sumAmountUsdCents(state, idx \ {i})

\* getMonthlySummary(month): total cents and contribution count.
getMonthlySummary(state, month) ==
    LET idx == {i \in DOMAIN state : state[i].month = month}
    IN [totalUsdCents |-> sumAmountUsdCents(state, idx), contributionCount |-> Cardinality(idx)]

\* A sync that threw: no result.
SyncThrew(message, state) ==
    [threw |-> message, state |-> state, scope |-> "", fetchedInvoiceCount |-> 0,
     processedInvoiceCount |-> 0, syncedCount |-> 0, duplicateCount |-> 0,
     skippedCount |-> 0, truncated |-> "absent"]

\* invoices.filter((invoice) => invoice.paidAt.slice(0, 7) === month)
filterMonth(list, month) == SelectSeq(list, LAMBDA invoice : slice7(invoice.paidAt) = month)

\* The loop over the invoices: acc is the pool state and the two counters.
RECURSIVE syncLoop(_, _, _)
syncLoop(acc, invoices, k) ==
    IF k > Len(invoices) THEN acc
    ELSE LET invoice == invoices[k]
             receipt == recordContribution(acc.state,
                           [externalEventId |-> invoice.invoiceId,
                            amountUsdCents |-> invoice.amountPaidCents,
                            contributedAt |-> invoice.paidAt])
         IN syncLoop([state |-> receipt.state,
                      syncedCount |-> acc.syncedCount + (IF receipt.duplicate THEN 0 ELSE 1),
                      duplicateCount |-> acc.duplicateCount
                                            + (IF receipt.duplicate THEN 1 ELSE 0)],
                     invoices, k + 1)

\* syncPaidInvoices(input) on the pool state: the result, or what it threw,
\* and the pool state afterwards. For all customers `fetched` is the object
\* the walk returns: it has no filter method and is not iterable, and the
\* result is built without its truncated and hasMore fields.
syncPaidInvoices(state, input) ==
    LET month == normalizeMonth(input.month)
        invoices == IF month /= "" THEN filterMonth(input.list, month) ELSE input.list
        done == syncLoop([state |-> state, syncedCount |-> 0, duplicateCount |-> 0],
                         invoices, 1)
    IN IF ~input.allCustomers /\ input.customerId = ""
       THEN SyncThrew("Provide at least one of customerId or email", state)
       ELSE IF month /= "" /\ ~matchesMonthRegex(month)
       THEN SyncThrew("month must be in YYYY-MM format", state)
       ELSE IF input.allCustomers /\ month /= ""
       THEN SyncThrew("TypeError: fetched.filter is not a function", state)
       ELSE IF input.allCustomers
       THEN SyncThrew("TypeError: invoices is not iterable", state)
       ELSE [threw |-> "", state |-> done.state,
             scope |-> IF input.allCustomers THEN "all_customers" ELSE "customer",
             fetchedInvoiceCount |-> Len(input.list),
             processedInvoiceCount |-> Len(invoices),
             syncedCount |-> done.syncedCount,
             duplicateCount |-> done.duplicateCount,
             skippedCount |-> Len(input.list) - Len(invoices),
             truncated |-> "absent"]

NoSync ==
    [phase |-> "none",
     input |-> [allCustomers |-> FALSE, customerId |-> "", month |-> "", list |-> <<>>,
                truncated |-> FALSE, hasMore |-> FALSE],
     first |-> SyncThrew("", <<>>), second |-> SyncThrew("", <<>>), before |-> <<>>]

SyncInit == syncPool = <<>> /\ syncRun = NoSync

\* A sync with some inputs.
SyncFirst ==
    /\ syncRun.phase = "none"
    /\ \E input \in SyncInputs :
         LET out == syncPaidInvoices(syncPool, input)
         IN /\ syncPool' = out.state
            /\ syncRun' = [syncRun EXCEPT !.phase = "first", !.input = input, !.first = out]
    /\ UNCHANGED syncOthers

\* The same sync run a second time.
SyncSecond ==
    /\ syncRun.phase = "first"
    /\ LET out == syncPaidInvoices(syncPool, syncRun.input)
       IN /\ syncPool' = out.state
          /\ syncRun' = [syncRun EXCEPT !.phase = "second", !.second = out,
                                        !.before = syncPool]
    /\ UNCHANGED syncOthers

\* The syncs of other callers: one customer's invoices, no month filter.
OtherSyncInputs ==
    {input \in SyncInputs :
        ~input.allCustomers /\ input.customerId /= "" /\ input.month = ""}

\* Another sync, before the first run or between the two.
SyncOther ==
    /\ syncRun.phase \in {"none", "first"}
    /\ \E input \in OtherSyncInputs : syncPool' = syncPaidInvoices(syncPool, input).state
    /\ UNCHANGED syncRun
    /\ UNCHANGED syncOthers

SyncNext == SyncFirst \/ SyncSecond \/ SyncOther

\* ------------------------------------------------------------------------
\* Part 9: monthly batch retirement runs (the monthly driver over the
\* reconciliation run store)
\* ------------------------------------------------------------------------

\* Driver invocations that can be open at once.
MaxInvocations == 3

InvIds == 1..MaxInvocations

\* The (month, creditType) pairs the driver is invoked for: two months of
\* one credit type and two credit types of one month.
BatchKeys ==
    { [month |-> "2026-03", creditType |-> "carbon"],
      [month |-> "2026-03", creditType |-> "biodiversity"],
      [month |-> "2026-04", creditType |-> "carbon"] }

ExecutionModes == {"dry_run", "live"}

BatchRunInputs ==
    [month : {"2026-03", "2026-04"}, creditType : {"carbon", "biodiversity"},
     executionMode : ExecutionModes, force : BOOLEAN]

NoBatchRunInput ==
    [month |-> None, creditType |-> None, executionMode |-> None,
     force |-> FALSE]

\* One ReconciliationRun as the run store keeps it.
ReconciliationRun(id, input, status, batchStatus) ==
    [id |-> id, month |-> input.month, creditType |-> input.creditType,
     executionMode |-> input.executionMode, force |-> input.force,
     status |-> status, batchStatus |-> batchStatus]

sameKey(run, input) ==
    run.month = input.month /\ run.creditType = input.creditType

\* No exclusion: a new invocation never sees an execution in progress.
hasActiveExecution_Never(runs, input) == FALSE

\* An execution for the input's (month, creditType) is in progress.
hasActiveExecution(runs, input) ==
    \E k \in DOMAIN runs : sameKey(runs[k], input) /\ runs[k].status = "in_progress"

\* No preflight: every live run may go on chain.
preflightPassed_Always(runs, input) == TRUE

\* Preflight: a live run needs a successful dry_run recorded for the same
\* (month, creditType), unless force is given.
preflightPassed(runs, input) ==
    \/ input.executionMode = "dry_run"
    \/ input.force
    \/ \E k \in DOMAIN runs :
          /\ sameKey(runs[k], input)
          /\ runs[k].executionMode = "dry_run"
          /\ runs[k].status = "completed"
          /\ runs[k].batchStatus = "dry_run"

\* startRun: a new run record, in progress.
startRun(runs, id, input) ==
    Append(runs, ReconciliationRun(id, input, "in_progress", "in_progress"))

\* recordBlockedRun: a finished record of a run that was not allowed to start.
recordBlockedRun(runs, id, input) ==
    Append(runs, ReconciliationRun(id, input, "blocked", "blocked_preflight"))

\* finishRun: the run's record gets its final status.
finishRun(runs, id, status, batchStatus) ==
    [k \in DOMAIN runs |->
        IF runs[k].id = id
        THEN [runs[k] EXCEPT !.status = status, !.batchStatus = batchStatus]
        ELSE runs[k]]

\* What one invocation of the driver does on entry with the store as it is:
\* rejected while an execution of the same (month, creditType) is in
\* progress, blocked when the preflight fails, started otherwise.
invoke(runs, id, input) ==
    IF hasActiveExecution(runs, input)
    THEN [pc |-> "rejected", runs |-> runs]
    ELSE IF ~preflightPassed(runs, input)
    THEN [pc |-> "blocked", runs |-> recordBlockedRun(runs, id, input)]
    ELSE [pc |-> "in_progress", runs |-> startRun(runs, id, input)]

BatchInit ==
    /\ batchRuns = <<>>
    /\ batchInv = [i \in InvIds |-> [pc |-> "idle", input |-> NoBatchRunInput]]

\* An invocation of the driver arrives.
Invoke ==
    \E i \in InvIds, input \in BatchRunInputs :
       /\ batchInv[i].pc = "idle"
       /\ \A j \in InvIds : j < i => batchInv[j].pc # "idle"
       /\ [month |-> input.month, creditType |-> input.creditType] \in BatchKeys
       /\ LET r == invoke(batchRuns, i, input) IN
            /\ batchRuns' = r.runs
            /\ batchInv' = [batchInv EXCEPT ![i] = [pc |-> r.pc, input |-> input]]
       /\ UNCHANGED batchOthers

\* A dry run ends without calling the retirement service.
FinishDryRun ==
    \E i \in InvIds :
       /\ batchInv[i].pc = "in_progress"
       /\ batchInv[i].input.executionMode = "dry_run"
       /\ batchRuns' = finishRun(batchRuns, i, "completed", "dry_run")
       /\ batchInv' = [batchInv EXCEPT ![i].pc = "completed"]
       /\ UNCHANGED batchOthers

\* A run fails before anything is broadcast (no eligible orders for the
\* budget, payment authorization refused).
FailRun ==
    \E i \in InvIds :
       /\ batchInv[i].pc = "in_progress"
       /\ batchRuns' = finishRun(batchRuns, i, "failed", "failed")
       /\ batchInv' = [batchInv EXCEPT ![i].pc = "failed"]
       /\ UNCHANGED batchOthers

\* A live run submits its retirement transaction.
BatchBroadcast ==
    \E i \in InvIds :
       /\ batchInv[i].pc = "in_progress"
       /\ batchInv[i].input.executionMode = "live"
       /\ batchInv' = [batchInv EXCEPT ![i].pc = "broadcasting"]
       /\ UNCHANGED batchRuns
       /\ UNCHANGED batchOthers

\* The broadcast of a live run comes back: the run ends successful or failed.
FinishLiveRun ==
    \E i \in InvIds, ok \in BOOLEAN :
       /\ batchInv[i].pc = "broadcasting"
       /\ batchRuns' = finishRun(batchRuns, i,
                                 IF ok THEN "completed" ELSE "failed",
                                 IF ok THEN "success" ELSE "failed")
       /\ batchInv' = [batchInv EXCEPT ![i].pc = IF ok THEN "retired" ELSE "failed_on_chain"]
       /\ UNCHANGED batchOthers

BatchNext == Invoke \/ FinishDryRun \/ FailRun \/ BatchBroadcast \/ FinishLiveRun

\* ------------------------------------------------------------------------
\* Part 10: concurrent retirement calls in one process (POST /api/v1/retire
\* handlers, each awaiting its own executeRetirement call; the handlers
\* interleave at every await)
\* ------------------------------------------------------------------------

\* Requests that can be open at once.
MaxCallers == 3

CallerIds == 1..MaxCallers

NoCall == [pc |-> "idle", result |-> None]

\* The call moves on to its next await.
awaiting(call, pc) == [call EXCEPT !.pc = pc]

\* fallback(...): the call returns the marketplace fallback.
returnFallback(call) == [pc |-> "returned", result |-> "marketplace_fallback"]

returnSuccess(call) == [pc |-> "returned", result |-> "success"]

ConcInit == retireCalls = [c \in CallerIds |-> NoCall]

\* The route handler calls executeRetirement, which awaits initWallet.
RetireRequest ==
    \E c \in CallerIds :
       /\ retireCalls[c].pc = "idle"
       /\ \A d \in CallerIds : d < c => retireCalls[d].pc # "idle"
       /\ retireCalls' = [retireCalls EXCEPT ![c] = awaiting(@, "initWallet")]
       /\ UNCHANGED concOthers

\* initWallet settles; the call awaits selectBestOrders.
WalletReady ==
    \E c \in CallerIds, ok \in BOOLEAN :
       /\ retireCalls[c].pc = "initWallet"
       /\ retireCalls' = [retireCalls EXCEPT ![c] =
                             IF ok THEN awaiting(@, "selectBestOrders")
                             ELSE returnFallback(@)]
       /\ UNCHANGED concOthers

\* selectBestOrders settles; with orders the call awaits authorizePayment.
OrdersSelected ==
    \E c \in CallerIds, ok \in BOOLEAN :
       /\ retireCalls[c].pc = "selectBestOrders"
       /\ retireCalls' = [retireCalls EXCEPT ![c] =
                             IF ok THEN awaiting(@, "authorizePayment")
                             ELSE returnFallback(@)]
       /\ UNCHANGED concOthers

\* authorizePayment settles; when authorized the call builds its message and
\* calls signAndBroadcast at once, whatever the other calls are awaiting.
PaymentAuthorized ==
    \E c \in CallerIds, ok \in BOOLEAN :
       /\ retireCalls[c].pc = "authorizePayment"
       /\ retireCalls' = [retireCalls EXCEPT ![c] =
                             IF ok THEN awaiting(@, "signAndBroadcast")
                             ELSE returnFallback(@)]
       /\ UNCHANGED concOthers

\* signAndBroadcast settles: accepted, or thrown or rejected and refunded.
BroadcastSettled ==
    \E c \in CallerIds, ok \in BOOLEAN :
       /\ retireCalls[c].pc = "signAndBroadcast"
       /\ retireCalls' = [retireCalls EXCEPT ![c] =
                             IF ok THEN awaiting(@, "capturePayment")
                             ELSE awaiting(@, "refundPayment")]
       /\ UNCHANGED concOthers

\* refundPayment settles (its failure is ignored); the call returns the
\* fallback.
Refunded ==
    \E c \in CallerIds :
       /\ retireCalls[c].pc = "refundPayment"
       /\ retireCalls' = [retireCalls EXCEPT ![c] = returnFallback(@)]
       /\ UNCHANGED concOthers

\* capturePayment settles; the call awaits waitForRetirement. A throw leaves
\* through the outer catch.
Captured ==
    \E c \in CallerIds, ok \in BOOLEAN :
       /\ retireCalls[c].pc = "capturePayment"
       /\ retireCalls' = [retireCalls EXCEPT ![c] =
                             IF ok THEN awaiting(@, "waitForRetirement")
                             ELSE returnFallback(@)]
       /\ UNCHANGED concOthers

\* waitForRetirement settles; the call returns success.
Retired ==
    \E c \in CallerIds :
       /\ retireCalls[c].pc = "waitForRetirement"
       /\ retireCalls' = [retireCalls EXCEPT ![c] = returnSuccess(@)]
       /\ UNCHANGED concOthers

ConcNext ==
    \/ RetireRequest \/ WalletReady \/ OrdersSelected \/ PaymentAuthorized
    \/ BroadcastSettled \/ Refunded \/ Captured \/ Retired

\* ------------------------------------------------------------------------
\* Part 11: the per-key API rate limiter (checkRateLimit and the /api/v1
\* middleware, server/index.ts)
\* ------------------------------------------------------------------------

\* const windowMs = 60_000
windowMs == 60000

\* Entries older than this are dropped by the cleanup timer.
staleMs == 120000

\* config.apiRateLimit
apiRateLimit == 2

\* Requests checked in one behaviour.
MaxRequests == 4

ApiKeys == {"rfa_a", "rfa_b"}

\* The instants at which something happens, in milliseconds: around the
\* start and the end of the first window and of the windows after it.
Instants == {0, 500, 59000, 59500, 60000, 60500, 119500, 120000, 180500}

NoWindow == [present |-> FALSE, count |-> 0, windowStart |-> 0]

\* Rounding down instead of up.
ceilSeconds_Floor(ms) == ms \div 1000

\* Math.ceil(ms / 1000)
ceilSeconds(ms) == (ms + 999) \div 1000

\* checkRateLimit: without a window for the key, or with one that started a
\* window length ago or more, a new window starts at now with count 1; a full
\* window refuses, with the seconds left until the window ends, rounded up; a
\* window that is not full counts the request.
checkRateLimit(windows, apiKey, limit, now) ==
    LET existing == windows[apiKey] IN
    IF ~existing.present \/ now - existing.windowStart >= windowMs
    THEN [allowed |-> TRUE, retryAfterSec |-> 0,
          windows |-> [windows EXCEPT ![apiKey] =
                          [present |-> TRUE, count |-> 1, windowStart |-> now]]]
    ELSE IF existing.count >= limit
    THEN [allowed |-> FALSE,
          retryAfterSec |-> ceilSeconds(existing.windowStart + windowMs - now),
          windows |-> windows]
    ELSE [allowed |-> TRUE, retryAfterSec |-> 0,
          windows |-> [windows EXCEPT ![apiKey].count = @ + 1]]

RateInit ==
    /\ rateLimitWindows = [k \in ApiKeys |-> NoWindow]
    /\ rateNow = 0
    /\ rateLog = <<>>

\* An authenticated /api/v1 request goes through the middleware: admitted,
\* or answered 429 with the Retry-After header.
ApiRequest ==
    \E apiKey \in ApiKeys :
       /\ Len(rateLog) < MaxRequests
       /\ LET r == checkRateLimit(rateLimitWindows, apiKey, apiRateLimit, rateNow) IN
            /\ rateLimitWindows' = r.windows
            /\ rateLog' = Append(rateLog,
                   [apiKey |-> apiKey, at |-> rateNow, allowed |-> r.allowed,
                    retryAfterSec |-> r.retryAfterSec])
       /\ UNCHANGED rateNow
       /\ UNCHANGED rateOthers

\* Time passes.
Advance ==
    \E t \in Instants :
       /\ t > rateNow
       /\ rateNow' = t
       /\ UNCHANGED <<rateLimitWindows, rateLog>>
       /\ UNCHANGED rateOthers

\* The cleanup timer drops the windows that started more than staleMs ago.
Cleanup ==
    /\ \E k \in ApiKeys :
          rateLimitWindows[k].present /\ rateNow - rateLimitWindows[k].windowStart > staleMs
    /\ rateLimitWindows' =
          [k \in ApiKeys |->
              IF rateLimitWindows[k].present
                    /\ rateNow - rateLimitWindows[k].windowStart > staleMs
              THEN NoWindow ELSE rateLimitWindows[k]]
    /\ UNCHANGED <<rateNow, rateLog>>
    /\ UNCHANGED rateOthers

RateNext == ApiRequest \/ Advance \/ Cleanup

\* ------------------------------------------------------------------------
\* Part 12: identity tags in retirement reasons (appendIdentityToReason,
\* parseAttributedReason, services/identity.ts)
\* ------------------------------------------------------------------------

\* An EncodedIdentityV1 payload as JSON.stringify writes it and JSON.parse
\* reads it back; a key that is left out is "".
Payload(v, method, name, email, provider, subject) ==
    [v |-> v, method |-> method, name |-> name, email |-> email,
     provider |-> provider, subject |-> subject]

NoPayload == Payload(0, "", "", "", "", "")

\* What stands between "[identity:" and "]": base64url text that decodes to
\* the JSON of a payload, or base64url text that does not decode to JSON.
Base64Url(payload) == [json |-> TRUE, payload |-> payload]

NotJson == [json |-> FALSE, payload |-> NoPayload]

\* A reason is a sequence of pieces: words (bracketed words among them),
\* single white-space characters, and identity tags.
Word(text) == [kind |-> "word", text |-> text, encoded |-> NotJson]

Space == [kind |-> "space", text |-> " ", encoded |-> NotJson]

Tag(encoded) == [kind |-> "tag", text |-> "", encoded |-> encoded]

DefaultReason == <<Word("Ecological regeneration")>>

\* An identity as captureIdentity returns it; an absent field is "".
IdentityAttribution(authMethod, name, email, provider, subject) ==
    [authMethod |-> authMethod, beneficiaryName |-> name,
     beneficiaryEmail |-> email, authProvider |-> provider,
     authSubject |-> subject]

\* The identities captureIdentity can return: oauth with provider and
\* subject, email with an email, manual with a name only, none with nothing.
IdentityAttributions ==
    {IdentityAttribution("oauth", n, e, "google", "sub-123") :
        n \in {"", "Alice"}, e \in {"", "alice@example.com"}}
    \cup {IdentityAttribution("email", n, "alice@example.com", "", "") :
             n \in {"", "Alice"}}
    \cup {IdentityAttribution("manual", "Alice", "", "", ""),
          IdentityAttribution("none", "", "", "", "")}

\* Tags a reason text can already carry: a well-formed payload naming
\* someone else, a payload of another version, a payload of no known
\* method, and text that is not JSON.
ForgedTag == Tag(Base64Url(Payload(1, "manual", " Mallory ", "", "", "")))
OtherVersionTag == Tag(Base64Url(Payload(2, "manual", "Mallory", "", "", "")))
UnknownMethodTag == Tag(Base64Url(Payload(1, "none", "Mallory", "", "", "")))
GarbageTag == Tag(NotJson)

\* Reason texts: not empty, no white space at either end.
ReasonTexts ==
    { <<Word("Funding")>>,
      <<Word("impact")>>,
      <<Word("Funding"), Space, Word("impact")>>,
      <<Word("Funding"), Space, Space, Word("impact")>>,
      <<Word("[Q1]")>>,
      <<Word("Funding"), Space, Word("[Q1]")>>,
      <<Word("Funding"), Space, Word("[identity]")>>,
      <<Word("Funding"), Space, GarbageTag>>,
      <<Word("Funding"), Space, OtherVersionTag>>,
      <<Word("Funding"), Space, UnknownMethodTag>>,
      <<Word("Funding"), Space, ForgedTag>>,
      <<Word("Funding"), ForgedTag>>,
      <<ForgedTag>>,
      <<ForgedTag, Space, Word("Funding")>> }

\* value.trim() of a field value; "" when nothing is left.
normalizeField(value) ==
    IF value = " Mallory " THEN "Mallory"
    ELSE IF value = " " THEN ""
    ELSE value

RECURSIVE trimEnd(_)
trimEnd(reason) ==
    IF reason /= <<>> /\ reason[Len(reason)].kind = "space"
    THEN trimEnd(SubSeq(reason, 1, Len(reason) - 1))
    ELSE reason

RECURSIVE trimStart(_)
trimStart(reason) ==
    IF reason /= <<>> /\ reason[1].kind = "space"
    THEN trimStart(Tail(reason))
    ELSE reason

\* normalize(reason) || "Ecological regeneration"
rawReasonOf(reason) ==
    LET trimmed == trimEnd(trimStart(reason))
    IN IF trimmed = <<>> THEN DefaultReason ELSE trimmed

\* appendIdentityToReason: nothing is appended for method none; otherwise a
\* space and the tag with the payload of the fields that are set.
appendIdentityToReason(baseReason, identity) ==
    IF identity.authMethod = "none"
    THEN baseReason
    ELSE baseReason \o <<Space, Tag(Base64Url(
             Payload(1, identity.authMethod, identity.beneficiaryName,
                     identity.beneficiaryEmail, identity.authProvider,
                     identity.authSubject)))>>

\* IDENTITY_TAG_PATTERN matches: the raw reason ends in a tag (white space
\* after it is already trimmed).
endsInTag(rawReason) == rawReason[Len(rawReason)].kind = "tag"

\* rawReason.replace(IDENTITY_TAG_PATTERN, ""): without the last tag and the
\* white space before it.
withoutTag(rawReason) == trimEnd(SubSeq(rawReason, 1, Len(rawReason) - 1))

NoIdentity == IdentityAttribution("none", "", "", "", "")

\* parseAttributedReason: the reason text and the identity read from the
\* tag; without a tag that decodes to a version 1 payload of a known method
\* the whole reason is the text and there is no identity.
parseAttributedReason(reason) ==
    LET rawReason == rawReasonOf(reason)
        plain == [reasonText |-> rawReason, identity |-> NoIdentity]
    IN IF ~endsInTag(rawReason) THEN plain
       ELSE LET encoded == rawReason[Len(rawReason)].encoded
                parsed == encoded.payload
            IN IF ~encoded.json THEN plain
               ELSE IF parsed.v /= 1 \/ parsed.method \notin {"manual", "email", "oauth"}
               THEN plain
               ELSE [reasonText |->
                        IF withoutTag(rawReason) = <<>> THEN DefaultReason
                        ELSE withoutTag(rawReason),
                     identity |->
                        IdentityAttribution(parsed.method,
                            normalizeField(parsed.name),
                            toLowerCase(normalizeField(parsed.email)),
                            normalizeField(parsed.provider),
                            normalizeField(parsed.subject))]

NoIdentCase ==
    [phase |-> "none", reasonText |-> <<>>, identity |-> NoIdentity,
     tagged |-> <<>>, parsed |-> [reasonText |-> <<>>, identity |-> NoIdentity]]

IdentInit == identCase = NoIdentCase

\* A retirement reason is tagged with an identity and later read back from
\* the certificate.
TagAndParse ==
    \E reasonText \in ReasonTexts, identity \in IdentityAttributions :
       /\ identCase.phase = "none"
       /\ LET tagged == appendIdentityToReason(reasonText, identity) IN
            identCase' = [phase |-> "parsed", reasonText |-> reasonText,
                          identity |-> identity, tagged |-> tagged,
                          parsed |-> parseAttributedReason(tagged)]
       /\ UNCHANGED identOthers

IdentNext == TagAndParse

\* ------------------------------------------------------------------------
\* Part 13: the retirement entry points and the preferred denom
\* (retireCredits in tools/retire.ts, executeRetirement in
\* services/retirement.ts)
\* ------------------------------------------------------------------------

\* config.paymentProvider: getPaymentProvider() returns the provider named
\* "stripe" for "stripe" and the crypto provider otherwise.
PaymentProviders == {"stripe", "crypto"}

\* The sell orders on the ledger: the cheapest in uregen, one in uusdc.
EntryOrders ==
    {o \in OrderCatalog : o.id \in {"mid", "cheap", "usdc"}}

EntryListings ==
    UNION {{l \in [1..n -> EntryOrders] : \A i, j \in 1..n : l[i] = l[j] => i = j}
             : n \in 0..3}

EntryAllowedDenoms == {<<Uregen, Uusdc>>, <<Uusdc, Uregen>>, <<Uregen>>, <<>>}

\* retireCredits: provider.name === "stripe" ? "USDC" : undefined
retireCreditsPreferredDenom(providerName) ==
    IF providerName = "stripe" THEN "USDC" ELSE ""

\* executeRetirement calls selectBestOrders(creditType, retireQuantity):
\* no preferred denom, whatever the provider.
executeRetirementPreferredDenom(providerName) == ""

preferredDenomOf(entryPoint, providerName) ==
    IF entryPoint = "retireCredits"
    THEN retireCreditsPreferredDenom(providerName)
    ELSE executeRetirementPreferredDenom(providerName)

NoEntryCall ==
    [entryPoint |-> "", provider |-> "", preferredDenom |-> "",
     sellOrders |-> <<>>, allowedDenoms |-> <<>>, outcome |-> "",
     authorizeDenom |-> "",
     authorizeAmount |-> 0]

\* One entry-point call up to the payment authorization: order selection
\* for one credit, the fallback when nothing or too little is on sale, and
\* otherwise provider.authorizePayment(totalCostMicro, paymentDenom, ...).
entryPointCall(entryPoint, providerName, sellOrders, allowedDenoms) ==
    LET preferredDenom == preferredDenomOf(entryPoint, providerName)
        selection == selectBestOrders("", 500000, preferredDenom, sellOrders,
                                      allowedDenoms, 2)
        call == [NoEntryCall EXCEPT !.entryPoint = entryPoint,
                                    !.provider = providerName,
                                    !.preferredDenom = preferredDenom,
                                    !.sellOrders = sellOrders,
                                    !.allowedDenoms = allowedDenoms]
    IN IF Len(selection.orders) = 0 \/ selection.insufficientSupply
       THEN [call EXCEPT !.outcome = "fallback"]
       ELSE [call EXCEPT !.outcome = "authorizePayment",
                         !.authorizeDenom = selection.paymentDenom,
                         !.authorizeAmount = selection.totalCostMicro]

EntryInit == entryCall = NoEntryCall

\* The retire_credits tool.
RetireCredits ==
    \E providerName \in PaymentProviders, sellOrders \in EntryListings,
       allowedDenoms \in EntryAllowedDenoms :
       /\ entryCall.outcome = ""
       /\ entryCall' = entryPointCall("retireCredits", providerName, sellOrders, allowedDenoms)
       /\ UNCHANGED entryOthers

\* executeRetirement, behind POST /api/v1/retire and the retire tool that
\* renders its result.
ExecuteRetirement ==
    \E providerName \in PaymentProviders, sellOrders \in EntryListings,
       allowedDenoms \in EntryAllowedDenoms :
       /\ entryCall.outcome = ""
       /\ entryCall' = entryPointCall("executeRetirement", providerName, sellOrders, allowedDenoms)
       /\ UNCHANGED entryOthers

EntryNext == RetireCredits \/ ExecuteRetirement

\* ------------------------------------------------------------------------
\* Part 14: concurrent retirements drawing on one prepaid balance
\* (executeRetirement with usePrepaid, GET /balance and POST /debit of the
\* balance service)
\* ------------------------------------------------------------------------

NoPrepaidCall ==
    [pc |-> "idle", costCents |-> 0, debits |-> 0, refused |-> FALSE,
     result |-> None]

\* balance && balance.available && balance.balance_cents >= costCents, with
\* available = balance_cents > 0
balanceCovers(balanceCents, costCents) ==
    balanceCents > 0 /\ balanceCents >= costCents

\* POST /debit: debitBalance takes the amount when the balance covers it and
\* refuses otherwise.
postDebit(balanceCents, amountCents) ==
    IF balanceCents < amountCents
    THEN [success |-> FALSE, balance_cents |-> balanceCents]
    ELSE [success |-> TRUE, balance_cents |-> balanceCents - amountCents]

PrepaidInit ==
    /\ prepaidBalance \in 0..MaxBalanceCents
    /\ prepaidCalls = [c \in CallerIds |-> NoPrepaidCall]

\* executeRetirement is called; order selection gives the cost.
PrepaidStart ==
    \E c \in CallerIds, costCents \in 1..MaxCostCents :
       /\ prepaidCalls[c].pc = "idle"
       /\ \A d \in CallerIds : d < c => prepaidCalls[d].pc # "idle"
       /\ prepaidCalls' = [prepaidCalls EXCEPT ![c] =
                              [@ EXCEPT !.pc = "checkPrepaidBalance",
                                        !.costCents = costCents]]
       /\ UNCHANGED prepaidBalance
       /\ UNCHANGED prepaidOthers

\* checkPrepaidBalance settles: the fallback when the balance read does not
\* cover the cost, otherwise on to authorize and broadcast.
PrepaidCheck ==
    \E c \in CallerIds :
       /\ prepaidCalls[c].pc = "checkPrepaidBalance"
       /\ prepaidCalls' = [prepaidCalls EXCEPT ![c] =
                              IF balanceCovers(prepaidBalance, @.costCents)
                              THEN [@ EXCEPT !.pc = "signAndBroadcast"]
                              ELSE [@ EXCEPT !.pc = "returned",
                                             !.result = "marketplace_fallback"]]
       /\ UNCHANGED prepaidBalance
       /\ UNCHANGED prepaidOthers

\* signAndBroadcast settles: accepted and captured, or the fallback.
PrepaidBroadcast ==
    \E c \in CallerIds, accepted \in BOOLEAN :
       /\ prepaidCalls[c].pc = "signAndBroadcast"
       /\ prepaidCalls' = [prepaidCalls EXCEPT ![c] =
                              IF accepted
                              THEN [@ EXCEPT !.pc = "debitPrepaidBalance"]
                              ELSE [@ EXCEPT !.pc = "returned",
                                             !.result = "marketplace_fallback"]]
       /\ UNCHANGED prepaidBalance
       /\ UNCHANGED prepaidOthers

\* await debitPrepaidBalance(costCents, ...): the balance service debits or
\* refuses; the call does not read the answer.
PrepaidDebit ==
    \E c \in CallerIds :
       /\ prepaidCalls[c].pc = "debitPrepaidBalance"
       /\ LET r == postDebit(prepaidBalance, prepaidCalls[c].costCents) IN
            /\ prepaidBalance' = r.balance_cents
            /\ prepaidCalls' = [prepaidCalls EXCEPT ![c] =
                                   [@ EXCEPT !.pc = "waitForRetirement",
                                             !.debits = IF r.success THEN @ + 1 ELSE @,
                                             !.refused = ~r.success]]
       /\ UNCHANGED prepaidOthers

\* waitForRetirement settles; the call returns success.
PrepaidReturn ==
    \E c \in CallerIds :
       /\ prepaidCalls[c].pc = "waitForRetirement"
       /\ prepaidCalls' = [prepaidCalls EXCEPT ![c] =
                              [@ EXCEPT !.pc = "returned", !.result = "success"]]
       /\ UNCHANGED prepaidBalance
       /\ UNCHANGED prepaidOthers

PrepaidNext ==
    PrepaidStart \/ PrepaidCheck \/ PrepaidBroadcast \/ PrepaidDebit \/ PrepaidReturn

\* ------------------------------------------------------------------------
\* Part 15: concurrent auth calls over the JSON file store (each call
\* awaits store.readState(), works on the copy it read, and awaits
\* store.writeState(state) with that copy; JsonFileAuthStore reads and
\* writes the whole file and holds no lock)
\* ------------------------------------------------------------------------

\* The file when the calls arrive: session 1 of alice verified, recovery
\* token 1 issued for it, session 2 of alice pending with code 123456.
SeededAuthState ==
    LET started == startEmailAuth(defaultAuthState, "ALICE@Example.com", "123456", 0).state
        verified == verifyEmailAuth(started, 1, "123456", 0).state
        recovery == startRecovery(verified, "ALICE@Example.com", 0).state
    IN startEmailAuth(recovery, "ALICE@Example.com", "123456", 0).state

NoRaceCall ==
    [op |-> "", code |-> "", pc |-> "idle", snapshot |-> defaultAuthState,
     error |-> ""]

\* What the call does with the state it read: the error it ends with and
\* the state it hands to writeState.
raceOutcome(call) ==
    IF call.op = "recoverWithToken"
    THEN recoverWithToken(call.snapshot, 1, 0)
    ELSE verifyEmailAuth(call.snapshot, 2, call.code, 0)

\* The call reaches writeState: on every path that changed the state read.
reachesWriteState(call) == raceOutcome(call).state /= call.snapshot

RaceInit ==
    /\ raceStore = SeededAuthState
    /\ raceCalls = [c \in CallerIds |-> NoRaceCall]

\* recoverWithToken({recoveryToken}) is called with token 1.
RecoverCalled ==
    \E c \in CallerIds :
       /\ raceCalls[c].pc = "idle"
       /\ \A d \in CallerIds : d < c => raceCalls[d].pc # "idle"
       /\ raceCalls' = [raceCalls EXCEPT ![c] =
                           [@ EXCEPT !.op = "recoverWithToken", !.pc = "readState"]]
       /\ UNCHANGED raceStore
       /\ UNCHANGED raceOthers

\* verifyEmailAuth({sessionId: 2, verificationCode}) is called.
VerifyCalled ==
    \E c \in CallerIds, code \in Codes :
       /\ raceCalls[c].pc = "idle"
       /\ \A d \in CallerIds : d < c => raceCalls[d].pc # "idle"
       /\ raceCalls' = [raceCalls EXCEPT ![c] =
                           [@ EXCEPT !.op = "verifyEmailAuth", !.code = code,
                                     !.pc = "readState"]]
       /\ UNCHANGED raceStore
       /\ UNCHANGED raceOthers

\* readState settles: the call has its copy; it throws at once or goes on to
\* writeState.
ReadSettles ==
    \E c \in CallerIds :
       /\ raceCalls[c].pc = "readState"
       /\ LET call == [raceCalls[c] EXCEPT !.snapshot = raceStore] IN
            raceCalls' = [raceCalls EXCEPT ![c] =
                IF reachesWriteState(call)
                THEN [call EXCEPT !.pc = "writeState"]
                ELSE [call EXCEPT !.pc = "returned", !.error = raceOutcome(call).error]]
       /\ UNCHANGED raceStore
       /\ UNCHANGED raceOthers

\* writeState settles: the file is replaced by the call's copy; the call
\* returns or throws.
WriteSettles ==
    \E c \in CallerIds :
       /\ raceCalls[c].pc = "writeState"
       /\ raceStore' = raceOutcome(raceCalls[c]).state
       /\ raceCalls' = [raceCalls EXCEPT ![c] =
                           [@ EXCEPT !.pc = "returned",
                                     !.error = raceOutcome(raceCalls[c]).error]]
       /\ UNCHANGED raceOthers

RaceNext == RecoverCalled \/ VerifyCalled \/ ReadSettles \/ WriteSettles

\* ------------------------------------------------------------------------
\* Specifications
\* ------------------------------------------------------------------------

RetIdle ==
    /\ rpc = "done" /\ cfg = [wallet |-> FALSE, usePrepaid |-> FALSE]
    /\ sel = NoSelection /\ auth = NoAuth /\ tx = NoTx
    /\ calls = <<>> /\ result = NoResult /\ escaped = FALSE

DbIdle ==
    /\ webhookSecret = FALSE /\ users = <<>> /\ transactions = <<>> /\ deliveries = <<>>

AttrIdle == attrInput = NoAttrInput /\ attrOut = NoAttrOut /\ attrReordered = NoReordered

OrdIdle == ordIn = NoOrderInput /\ ordOut = NoOrders

AuthIdle == AuthInit

WalkIdle == WalkInit

SyncIdle == SyncInit

BatchIdle == BatchInit

ConcIdle == ConcInit

RateIdle == RateInit

IdentIdle == IdentInit

EntryIdle == EntryInit

PrepaidIdle == prepaidBalance = 0 /\ prepaidCalls = [c \in CallerIds |-> NoPrepaidCall]

RaceIdle == RaceInit

\* One executeRetirement call under fault injection.
RetireInit == RetInit /\ PoolInit /\ DbIdle /\ AttrIdle /\ OrdIdle /\ AuthIdle /\ WalkIdle /\ SyncIdle /\ BatchIdle /\ ConcIdle /\ RateIdle /\ IdentIdle /\ EntryIdle /\ PrepaidIdle /\ RaceIdle

SpecRetire == RetireInit /\ [][RetNext]_vars

\* Concurrent recordContribution calls on one ledger file.
PoolSpecInit == PoolInit /\ RetIdle /\ DbIdle /\ AttrIdle /\ OrdIdle /\ AuthIdle /\ WalkIdle /\ SyncIdle /\ BatchIdle /\ ConcIdle /\ RateIdle /\ IdentIdle /\ EntryIdle /\ PrepaidIdle /\ RaceIdle

SpecPool == PoolSpecInit /\ [][PoolNext]_vars

\* Webhook deliveries against one balance database.
WebhookInit == DbInit /\ RetIdle /\ PoolInit /\ AttrIdle /\ OrdIdle /\ AuthIdle /\ WalkIdle /\ SyncIdle /\ BatchIdle /\ ConcIdle /\ RateIdle /\ IdentIdle /\ EntryIdle /\ PrepaidIdle /\ RaceIdle

SpecWebhook == WebhookInit /\ [][DbNext]_vars

\* The balance store under top-ups and debits.
SpecBalance == WebhookInit /\ [][BalanceNext]_vars

\* buildContributorAttributions over the inputs of batch executions.
AttributionInit == AttrInit /\ RetIdle /\ PoolInit /\ DbIdle /\ OrdIdle /\ AuthIdle /\ WalkIdle /\ SyncIdle /\ BatchIdle /\ ConcIdle /\ RateIdle /\ IdentIdle /\ EntryIdle /\ PrepaidIdle /\ RaceIdle

SpecAttribution == AttributionInit /\ [][AttrNext]_vars

\* buildContributorAttributions over a contributor list and its reorderings.
ReorderInit == AttrInit /\ RetIdle /\ PoolInit /\ DbIdle /\ OrdIdle /\ AuthIdle /\ WalkIdle /\ SyncIdle /\ BatchIdle /\ ConcIdle /\ RateIdle /\ IdentIdle /\ EntryIdle /\ PrepaidIdle /\ RaceIdle

SpecReorder == ReorderInit /\ [][ReorderNext]_vars

\* Order selections over bounded order books.
OrdersInit == OrdInit /\ RetIdle /\ PoolInit /\ DbIdle /\ AttrIdle /\ AuthIdle /\ WalkIdle /\ SyncIdle /\ BatchIdle /\ ConcIdle /\ RateIdle /\ IdentIdle /\ EntryIdle /\ PrepaidIdle /\ RaceIdle

SpecOrders == OrdersInit /\ [][OrdNext]_vars

\* Auth service calls, one at a time, as the clock advances.
AuthSpecInit == AuthInit /\ RetIdle /\ PoolInit /\ DbIdle /\ AttrIdle /\ OrdIdle /\ WalkIdle /\ SyncIdle /\ BatchIdle /\ ConcIdle /\ RateIdle /\ IdentIdle /\ EntryIdle /\ PrepaidIdle /\ RaceIdle

SpecAuth == AuthSpecInit /\ [][AuthNext]_vars

\* Email sessions, their recovery, and the linking of sessions to users,
\* all within one reading of the clock.
LinksNext ==
    \/ StartEmailAuth \/ VerifyEmailAuth \/ StartRecovery \/ RecoverWithToken
    \/ LinkSessionToAnyUser

LinksInit == AuthInit /\ RetIdle /\ PoolInit /\ DbIdle /\ AttrIdle /\ OrdIdle /\ WalkIdle /\ SyncIdle /\ BatchIdle /\ ConcIdle /\ RateIdle /\ IdentIdle /\ EntryIdle /\ PrepaidIdle /\ RaceIdle

SpecLinks == LinksInit /\ [][LinksNext]_vars

\* One all-customer invoice walk against a gateway that answers every request
\* or fails it.
WalkSpecInit == WalkInit /\ RetIdle /\ PoolInit /\ DbIdle /\ AttrIdle /\ OrdIdle /\ AuthIdle /\ SyncIdle /\ BatchIdle /\ ConcIdle /\ RateIdle /\ IdentIdle /\ EntryIdle /\ PrepaidIdle /\ RaceIdle

SpecWalk == WalkSpecInit /\ [][WalkNext]_vars /\ WF_vars(FetchPage \/ FetchFails)

\* Syncs of paid invoices into one pool, one of them run twice.
SyncSpecInit == SyncInit /\ RetIdle /\ PoolInit /\ DbIdle /\ AttrIdle /\ OrdIdle /\ AuthIdle /\ WalkIdle /\ BatchIdle /\ ConcIdle /\ RateIdle /\ IdentIdle /\ EntryIdle /\ PrepaidIdle /\ RaceIdle

SpecSync == SyncSpecInit /\ [][SyncNext]_vars

\* Batch runs: invocations of the monthly driver arrive in any order and
\* interleave at their suspension points.
BatchSpecInit == BatchInit /\ RetIdle /\ PoolInit /\ DbIdle /\ AttrIdle /\ OrdIdle /\ AuthIdle /\ WalkIdle /\ SyncIdle /\ ConcIdle /\ RateIdle /\ IdentIdle /\ EntryIdle /\ PrepaidIdle /\ RaceIdle

SpecBatch == BatchSpecInit /\ [][BatchNext]_vars

\* Concurrent retirement calls: the handlers interleave at their awaits.
ConcSpecInit == ConcInit /\ RetIdle /\ PoolInit /\ DbIdle /\ AttrIdle /\ OrdIdle /\ AuthIdle /\ WalkIdle /\ SyncIdle /\ BatchIdle /\ RateIdle /\ IdentIdle /\ EntryIdle /\ PrepaidIdle /\ RaceIdle

SpecConcurrentRetire == ConcSpecInit /\ [][ConcNext]_vars

\* The rate limiter under requests of two keys as time passes.
RateSpecInit == RateInit /\ RetIdle /\ PoolInit /\ DbIdle /\ AttrIdle /\ OrdIdle /\ AuthIdle /\ WalkIdle /\ SyncIdle /\ BatchIdle /\ ConcIdle /\ IdentIdle /\ EntryIdle /\ PrepaidIdle /\ RaceIdle

SpecRateLimit == RateSpecInit /\ [][RateNext]_vars

\* Identity tags: one reason text and identity, tagged and parsed back.
IdentSpecInit == IdentInit /\ RetIdle /\ PoolInit /\ DbIdle /\ AttrIdle /\ OrdIdle /\ AuthIdle /\ WalkIdle /\ SyncIdle /\ BatchIdle /\ ConcIdle /\ RateIdle /\ EntryIdle /\ PrepaidIdle /\ RaceIdle

SpecIdentity == IdentSpecInit /\ [][IdentNext]_vars

\* The entry points, each called once under either provider.
EntrySpecInit == EntryInit /\ RetIdle /\ PoolInit /\ DbIdle /\ AttrIdle /\ OrdIdle /\ AuthIdle /\ WalkIdle /\ SyncIdle /\ BatchIdle /\ ConcIdle /\ RateIdle /\ IdentIdle /\ PrepaidIdle /\ RaceIdle

SpecEntryPoints == EntrySpecInit /\ [][EntryNext]_vars

\* Concurrent retirements on one prepaid balance, interleaving at their
\* awaits.
PrepaidSpecInit == PrepaidInit /\ RetIdle /\ PoolInit /\ DbIdle /\ AttrIdle /\ OrdIdle /\ AuthIdle /\ WalkIdle /\ SyncIdle /\ BatchIdle /\ ConcIdle /\ RateIdle /\ IdentIdle /\ EntryIdle /\ RaceIdle

SpecPrepaid == PrepaidSpecInit /\ [][PrepaidNext]_vars

\* Concurrent auth calls, interleaving at readState and writeState.
RaceSpecInit == RaceInit /\ RetIdle /\ PoolInit /\ DbIdle /\ AttrIdle /\ OrdIdle /\ AuthIdle /\ WalkIdle /\ SyncIdle /\ BatchIdle /\ ConcIdle /\ RateIdle /\ IdentIdle /\ EntryIdle /\ PrepaidIdle

SpecAuthRace == RaceSpecInit /\ [][RaceNext]_vars

\* ------------------------------------------------------------------------
\* Properties of executeRetirement (SpecRetire)
\* ------------------------------------------------------------------------

CallIdx(op) == {i \in DOMAIN calls : calls[i].op = op}

Called(op, out) == \E i \in CallIdx(op) : calls[i].out = out

BroadcastAccepted == tx.kind = "result" /\ tx.code = 0

BroadcastFailed == tx.kind = "throw" \/ (tx.kind = "result" /\ tx.code /= 0)

\* C1: whatever downstream calls throw or return errors, executeRetirement
\* never lets an exception reach its caller, and what it returns is a success
\* result or a marketplace_fallback result.
C1_RetirementNoThrow ==
    /\ ~escaped
    /\ rpc = "done" => result.status \in {"success", "marketplace_fallback"}

\* A call in which capturePayment threw after an accepted broadcast, and which
\* has returned.
C1_Witness ==
    /\ rpc = "done"
    /\ Called("capture", "throw")
    /\ result.status = "marketplace_fallback"
    /\ result.kind = "direct_failed"

\* C2: when authorize returned an authorized hold and signAndBroadcast threw or
\* returned a non-zero code, refund is called exactly once, with that
\* authorization's id, capture and waitForRetirement are never called, and the
\* result is a marketplace fallback whose message carries the broadcast error
\* text.
C2_RefundOnBroadcastFailure ==
    (auth.status = "authorized" /\ BroadcastFailed) =>
        /\ CallIdx("capture") = {}
        /\ CallIdx("waitForRetirement") = {}
        /\ \A i \in CallIdx("refund") : calls[i].arg = auth.id
        /\ rpc = "done" =>
             /\ Cardinality(CallIdx("refund")) = 1
             /\ result.status = "marketplace_fallback"
             /\ result.kind \in {"broadcast_failed", "tx_rejected"}
             /\ tx.text /= "" => result.text = tx.text

\* A returned call whose broadcast was rejected with a raw log, refunded on the
\* second authorization id.
C2_Witness ==
    /\ rpc = "done"
    /\ auth = [id |-> "auth-2", status |-> "authorized"]
    /\ tx.kind = "result" /\ tx.code /= 0 /\ tx.text = "out of gas"
    /\ Called("refund", "throw")

\* C3: within one call signAndBroadcast is invoked only after authorize
\* returned "authorized", capture only after signAndBroadcast returned code 0,
\* and each of the three is invoked at most once.
C3_PaymentStepsOrdered ==
    /\ \A i \in CallIdx("signAndBroadcast") :
          \E j \in CallIdx("authorize") : j < i /\ calls[j].out = "authorized"
    /\ \A i \in CallIdx("capture") :
          \E j \in CallIdx("signAndBroadcast") : j < i /\ calls[j].out = "code0"
    /\ \A op \in {"authorize", "signAndBroadcast", "capture"} :
          Cardinality(CallIdx(op)) <= 1

\* A call that went through authorize, broadcast and capture.
C3_Witness ==
    /\ Called("authorize", "authorized")
    /\ Called("signAndBroadcast", "code0")
    /\ Called("capture", "ok")

\* C4 (as claimed): when authorize returned an authorized hold and the call
\* returns without a broadcast accepted with code 0, refund was called for that
\* authorization before the call returned.
C4_HoldReleasedOnFailure ==
    (rpc = "done" /\ auth.status = "authorized" /\ ~BroadcastAccepted) =>
        \E i \in CallIdx("refund") : calls[i].arg = auth.id

\* C5: once signAndBroadcast has returned code 0 the call invokes capture for
\* the authorization, and never invokes refund, also when capture fails.
C5_CaptureAfterAcceptedBroadcast ==
    BroadcastAccepted =>
        /\ CallIdx("refund") = {}
        /\ rpc /= "capture" => \E i \in CallIdx("capture") : calls[i].arg = auth.id

\* An accepted broadcast whose capture failed: the call has returned and the
\* hold was neither captured nor refunded.
C5_Witness ==
    /\ rpc = "done"
    /\ BroadcastAccepted
    /\ Called("capture", "throw")
    /\ ~Called("capture", "ok")

\* ------------------------------------------------------------------------
\* Properties of recordContribution (SpecPool)
\* ------------------------------------------------------------------------

ledger == ledgerFile.contributions

LedgerIdx(eid) == {i \in DOMAIN ledger : ledger[i].externalEventId = eid}

ReceiptIdx(eid) == {i \in DOMAIN receipts : receipts[i].input.externalEventId = eid}

\* C6: for the calls sharing a non-empty externalEventId that have returned,
\* the ledger holds exactly one contribution with that id, every call returned
\* that record's id, every call after the first returned duplicate = true, and
\* only the first wrote to the store.
C6_PoolIdempotency ==
    \A eid \in EventIds \ {""} :
        ReceiptIdx(eid) /= {} =>
            /\ Cardinality(LedgerIdx(eid)) = 1
            /\ \A i \in ReceiptIdx(eid) :
                  /\ \A k \in LedgerIdx(eid) : receipts[i].record.id = ledger[k].id
                  /\ IF \A j \in ReceiptIdx(eid) : i <= j
                     THEN ~receipts[i].duplicate /\ receipts[i].wrote
                     ELSE receipts[i].duplicate /\ ~receipts[i].wrote

\* Three calls with one event id and differing amounts have returned.
C6_Witness ==
    \E eid \in EventIds \ {""} :
        /\ Cardinality(ReceiptIdx(eid)) = 3
        /\ \E i, j \in ReceiptIdx(eid) :
              receipts[i].input.amountUsdCents /= receipts[j].input.amountUsdCents

\* C7: under every interleaving of calls the stored ledger never holds two
\* contributions with the same non-empty externalEventId, at most one call per
\* such id appends, and every contribution a call appended stays in the ledger.
C7_ConcurrentCallsSerialized ==
    /\ \A eid \in EventIds \ {""} :
          /\ Cardinality(LedgerIdx(eid)) <= 1
          /\ Cardinality({i \in ReceiptIdx(eid) : receipts[i].wrote}) <= 1
    /\ \A i \in DOMAIN receipts :
          receipts[i].wrote => \E k \in DOMAIN ledger : ledger[k] = receipts[i].record

\* Two calls with the same event id are in flight: one is inside its
\* read-modify-write, the other has been invoked and waits.
C7_Witness ==
    \E c, d \in Callers :
        /\ c /= d
        /\ ppc[c] = "read" /\ ppc[d] = "called"
        /\ pin[c].externalEventId = pin[d].externalEventId
        /\ pin[c].externalEventId /= ""
        /\ Len(ledger) >= 1

\* ------------------------------------------------------------------------
\* Properties of the checkout webhook (SpecWebhook)
\* ------------------------------------------------------------------------

TopupIdx(session) ==
    {i \in DOMAIN transactions :
        transactions[i].type = "topup" /\ transactions[i].stripe_session_id = session}

RECURSIVE SumAmounts(_)
SumAmounts(events) ==
    IF events = {} THEN 0
    ELSE LET e == CHOOSE x \in events : TRUE
         IN e.amount_total + SumAmounts(events \ {e})

\* The checkout events that were delivered and accepted at least once.
AcceptedCheckouts ==
    {e \in WebhookEvents :
        /\ e.type = "checkout.session.completed"
        /\ \E i \in DOMAIN deliveries :
              deliveries[i].event = e.id /\ deliveries[i].http = 200}

\* C8 (as claimed): delivering a checkout-completed event again has no effect:
\* each checkout session is credited once, so the balances add up to the
\* amounts of the distinct events accepted.
C8_WebhookReplayIsNoOp ==
    /\ \A e \in AcceptedCheckouts : Cardinality(TopupIdx(e.session)) = 1
    /\ Sum([i \in DOMAIN users |-> users[i].balance_cents]) = SumAmounts(AcceptedCheckouts)

\* ------------------------------------------------------------------------
\* Properties of the attribution (SpecAttribution)
\* ------------------------------------------------------------------------

\* retiredQuantity times 1 000 000, digit by digit.
QuantityTimesMillion(q) ==
    q.whole * 1000000
    + Sum([k \in 1..Len(q.frac) |-> q.frac[k] * (10 ^ (6 - k))])

FloorShare(total, weights, i) == (total * weights[i]) \div Sum(weights)

ShareRemainder(total, weights, i) == (total * weights[i]) % Sum(weights)

\* j comes before i in the order: remainder descending, then weight
\* descending, then index ascending.
Precedes(total, weights, j, i) ==
    \/ ShareRemainder(total, weights, j) > ShareRemainder(total, weights, i)
    \/ /\ ShareRemainder(total, weights, j) = ShareRemainder(total, weights, i)
       /\ \/ weights[j] > weights[i]
          \/ weights[j] = weights[i] /\ j < i

LeftOver(total, weights) ==
    total - Sum([i \in DOMAIN weights |-> FloorShare(total, weights, i)])

FloorPlusRanked(total, weights, alloc) ==
    /\ LeftOver(total, weights) >= 0
    /\ LeftOver(total, weights) < Len(weights)
    /\ \A i \in DOMAIN weights :
          alloc[i] = FloorShare(total, weights, i)
                     + (IF Cardinality({j \in DOMAIN weights : Precedes(total, weights, j, i)})
                           < LeftOver(total, weights)
                        THEN 1 ELSE 0)

\* C10: for a total >= 0 and non-negative weights with positive sum, every
\* index gets floor(total * w / sumW), plus one exactly for the first
\* `remainder` indices in the order remainder descending, weight descending,
\* index ascending, where 0 <= remainder < number of weights.
C10_FloorPlusRankedRemainder ==
    (attrOut.done /\ Sum(attrInput.contributors) > 0) =>
        /\ FloorPlusRanked(attrInput.appliedBudgetUsdCents, attrInput.contributors,
                           attrOut.budgetAllocations)
        /\ FloorPlusRanked(attrInput.totalCostMicro, attrInput.contributors,
                           attrOut.costAllocations)
        /\ FloorPlusRanked(parseQuantityToMicro(attrInput.retiredQuantity),
                           attrInput.contributors, attrOut.quantityAllocations)

\* Two contributors tie on the remainder and the heavier one, listed second,
\* takes the only extra unit.
C10_Witness ==
    /\ attrOut.done
    /\ attrInput.contributors = <<1, 3>>
    /\ attrInput.appliedBudgetUsdCents = 2
    /\ attrOut.budgetAllocations = <<0, 2>>

AttributedTotals(out) ==
    <<out.threw, Len(out.attributions), Sum(out.budgetAllocations),
      Sum(out.costAllocations), Sum(out.quantityAllocations)>>

\* C11: attribution is deterministic (the attributions stored are those the
\* input determines) and, for every reordering of the contributor list, the
\* attributed budget, cost and quantity totals are the same as for the
\* list as given.
C11_PermutationInvariant ==
    attrReordered.out.done =>
        /\ attrOut = attributed(attrInput)
        /\ attrReordered.out = attributed(reordered(attrInput, attrReordered.order))
        /\ AttributedTotals(attrReordered.out) = AttributedTotals(attrOut)

\* A reordering that moves the contributors and changes what a contributor
\* at some position is attributed, with a remainder handed out.
C11_Witness ==
    /\ attrReordered.out.done
    /\ reordered(attrInput, attrReordered.order).contributors /= attrInput.contributors
    /\ \E i, j \in DOMAIN attrInput.contributors :
          /\ attrReordered.order[j] = i
          /\ attrReordered.out.budgetAllocations[j] /= attrOut.budgetAllocations[i]
    /\ Sum(attrOut.budgetAllocations) > 0

\* ------------------------------------------------------------------------
\* Properties of the order selection (SpecOrders)
\* ------------------------------------------------------------------------

\* Position in the order book of the order with this id.
ListingIdx(id) == CHOOSE i \in DOMAIN ordIn.sellOrders : ordIn.sellOrders[i].id = id

Listed(id) == ordIn.sellOrders[ListingIdx(id)]

SelectedIds == {ordOut.orders[k].sellOrderId : k \in DOMAIN ordOut.orders}

CostBefore(k) == Sum([j \in 1..(k - 1) |-> ordOut.orders[j].costMicro])

BudgetSelection == ordOut.done /\ ordIn.mode = "budget" /\ ~ordOut.threw

QuantitySelection == ordOut.done /\ ordIn.mode = "quantity" /\ ~ordOut.threw

\* C12: in every selectOrdersForBudget result (budget above zero) each
\* selected order costs at most the budget that remained when it was chosen,
\* and the costs of all selected orders sum to at most budgetMicro.
C12_BudgetBound ==
    BudgetSelection =>
        /\ ordIn.amount > 0
        /\ \A k \in DOMAIN ordOut.orders :
             /\ ordOut.orders[k].costMicro > 0
             /\ ordOut.orders[k].costMicro <= ordIn.amount - CostBefore(k)
        /\ CostBefore(Len(ordOut.orders) + 1) <= ordIn.amount
        /\ ordOut.totalCostMicro = CostBefore(Len(ordOut.orders) + 1)
        /\ ordOut.remainingBudgetMicro = ordIn.amount - ordOut.totalCostMicro

\* Two orders bought, the second with what the first left of the budget.
C12_Witness ==
    /\ BudgetSelection
    /\ Len(ordOut.orders) = 2
    /\ ordOut.orders[2].costMicro = ordIn.amount - ordOut.orders[1].costMicro

PriceOf(order) == BigIntOf(order.ask_amount).v

EligibleListed ==
    filterEligible(ordIn.sellOrders, ordIn.creditType,
                   pickDenom(ordIn.allowedDenoms, ordIn.preferredDenom).bankDenom, ordIn.now)

EligibleIds == {EligibleListed[i].id : i \in DOMAIN EligibleListed}

\* C13: in every selectBestOrders result no unselected eligible order asks
\* strictly less than a selected one, and among orders asking the same the
\* one listed first is selected first.
C13_CheapestFirst ==
    QuantitySelection =>
        /\ SelectedIds \subseteq EligibleIds
        /\ \A u \in EligibleIds \ SelectedIds : \A sid \in SelectedIds :
             /\ ~(PriceOf(Listed(u)) < PriceOf(Listed(sid)))
             /\ PriceOf(Listed(u)) = PriceOf(Listed(sid)) => ListingIdx(sid) < ListingIdx(u)
        /\ \A j, k \in DOMAIN ordOut.orders :
             j < k =>
               LET a == Listed(ordOut.orders[j].sellOrderId)
                   b == Listed(ordOut.orders[k].sellOrderId)
               IN \/ PriceOf(a) < PriceOf(b)
                  \/ PriceOf(a) = PriceOf(b) /\ ListingIdx(a.id) < ListingIdx(b.id)

\* The cheaper order is listed second and is the only one selected.
C13_Witness ==
    /\ QuantitySelection
    /\ Len(ordOut.orders) = 1
    /\ \E u \in EligibleIds \ SelectedIds :
         /\ ListingIdx(u) < ListingIdx(ordOut.orders[1].sellOrderId)
         /\ PriceOf(Listed(u)) > PriceOf(Listed(ordOut.orders[1].sellOrderId))

TakenInFull(id) ==
    \E k \in DOMAIN ordOut.orders :
       /\ ordOut.orders[k].sellOrderId = id
       /\ parseQuantityToMicro(ordOut.orders[k].quantity) = parseFloatMicro(Listed(id).quantity).micro

\* C14: insufficientSupply is true exactly when every eligible order was
\* taken in full and the total selected quantity is below the target.
C14_InsufficientSupplyIff ==
    QuantitySelection =>
        (ordOut.insufficientSupply <=>
            /\ \A id \in EligibleIds : TakenInFull(id)
            /\ parseQuantityToMicro(ordOut.totalQuantity) < ordIn.amount)

\* Supply short of the target: both eligible orders taken in full.
C14_Witness ==
    /\ QuantitySelection
    /\ ordOut.insufficientSupply
    /\ Len(ordOut.orders) = 2

\* The order of the book a selected order was made from is fit for this
\* request at this time.
FitsRequest(selected) ==
    LET order == Listed(selected.sellOrderId)
        abbrev == classTypeOf(classIdOf(order.batch_denom))
    IN /\ ~order.disable_auto_retire
       /\ order.ask_denom = ordOut.paymentDenom
       /\ selected.askDenom = ordOut.paymentDenom
       /\ ~(order.expiration /= 0 /\ order.expiration <= ordIn.now)
       /\ ordIn.creditType = "carbon" => abbrev = "C"
       /\ ordIn.creditType = "biodiversity" => abbrev \notin {"C", ""}

\* C15: no selection, in quantity mode or budget mode, contains an order
\* with disableAutoRetire, another ask denom than the payment denom, an
\* expiration at or before the current time, or a class of another credit
\* type than requested.
C15_OnlyEligibleSelected ==
    (ordOut.done /\ ~ordOut.threw) =>
        \A k \in DOMAIN ordOut.orders :
           /\ \E i \in DOMAIN ordIn.sellOrders :
                ordIn.sellOrders[i].id = ordOut.orders[k].sellOrderId
           /\ FitsRequest(ordOut.orders[k])

\* A budget selection made next to an order that expires exactly now.
C15_Witness ==
    /\ BudgetSelection
    /\ Len(ordOut.orders) = 1
    /\ \E i \in DOMAIN ordIn.sellOrders :
         /\ ordIn.sellOrders[i].expiration = ordIn.now
         /\ ~ordIn.sellOrders[i].disable_auto_retire
         /\ ordIn.sellOrders[i].ask_denom = ordOut.paymentDenom

\* ------------------------------------------------------------------------
\* Properties of the auth sessions and recovery (SpecAuth, SpecAuthAnyClock)
\* ------------------------------------------------------------------------

RecoveredWith(r) ==
    {i \in DOMAIN authStore.sessions : authStore.sessions[i].recoveredWith = r}

Consumed(r) == authStore.recoveries[r].consumedAt /= -1

\* What single use means for every token: at most one success, consumedAt
\* set exactly by it, one verified session made by it, and a consumed token
\* refused without a session being added.
SingleUse(r) ==
    /\ recoverLog[r].succeeded <= 1
    /\ Consumed(r) <=> recoverLog[r].succeeded = 1
    /\ Cardinality(RecoveredWith(r)) = recoverLog[r].succeeded
    /\ \A i \in RecoveredWith(r) : authStore.sessions[i].status = "verified"
    /\ Consumed(r) =>
          LET out == recoverWithToken(authStore, r, authNow)
          IN out.error /= "" /\ out.state = authStore

\* C16 as stated: across the recoverWithToken calls presenting a token
\* exactly one succeeds and creates exactly one verified session, and a
\* consumed token stays consumed and is refused.
C16_ExactlyOneRecovery ==
    /\ DOMAIN recoverLog = DOMAIN authStore.recoveries
    /\ \A r \in DOMAIN recoverLog :
         /\ SingleUse(r)
         /\ recoverLog[r].called => recoverLog[r].succeeded = 1

\* C16 amended: across the recoverWithToken calls presenting a token at most
\* one succeeds - the first one, unless the token had expired by then, and
\* then none does; the successful call creates exactly one verified session,
\* and a consumed token stays consumed and is refused.
C16_RecoverySingleUse ==
    /\ DOMAIN recoverLog = DOMAIN authStore.recoveries
    /\ \A r \in DOMAIN recoverLog :
         /\ SingleUse(r)
         /\ recoverLog[r].called =>
               \/ recoverLog[r].succeeded = 1
               \/ isExpired(authNow, authStore.recoveries[r].expiresAt)

\* A token that was used once, before its expiry, and is refused as used
\* when presented again.
C16_Witness ==
    \E r \in DOMAIN recoverLog :
       /\ recoverLog[r].succeeded = 1
       /\ Cardinality(RecoveredWith(r)) = 1
       /\ ~isExpired(authNow, authStore.recoveries[r].expiresAt)
       /\ recoverWithToken(authStore, r, authNow).error = "recovery_token has already been used"

\* C17: a session whose status is no longer pending never has status
\* pending again: no call of the service returns a stored session to
\* pending, and at no clock value does the recomputation of the status from
\* the time do so.
C17_NeverPendingAgain ==
    /\ [][\A i \in DOMAIN authStore.sessions :
            authStore.sessions[i].status /= "pending" =>
               /\ i \in DOMAIN authStore'.sessions
               /\ authStore'.sessions[i].id = authStore.sessions[i].id
               /\ authStore'.sessions[i].status /= "pending"]_vars
    /\ [](\A i \in DOMAIN authStore.sessions : \A t \in 0..MaxClock :
            authStore.sessions[i].status /= "pending" =>
               mutateSessionStatusForTime(authStore.sessions[i], t).status /= "pending")

\* A verified session is read after its expiresAt has passed.
C17_Witness ==
    \E i \in DOMAIN authStore.sessions :
       /\ authStore.sessions[i].status = "verified"
       /\ isExpired(authNow, authStore.sessions[i].expiresAt)
       /\ getSession(authStore, authStore.sessions[i].id, authNow).state = authStore

EmailSessions == {i \in DOMAIN authStore.sessions : authStore.sessions[i].method = "email"}

\* The stored session is pending and its expiry has not come.
PendingNow(i) ==
    /\ authStore.sessions[i].status = "pending"
    /\ ~isExpired(authNow, authStore.sessions[i].expiresAt)

CorrectCode(i, code) ==
    hashCode(code, authStore.sessions[i].beneficiaryEmail) = authStore.sessions[i].emailCodeHash

\* C18: a verifyEmailAuth call with a wrong 6-digit code on a pending email
\* session raises verificationAttempts by one; the session is locked exactly
\* when the count has reached maxVerificationAttempts; a locked session is
\* refused and stays locked, the correct code included.
C18_AttemptsAndLock ==
    \A i \in EmailSessions :
       LET session == authStore.sessions[i]
       IN /\ session.status = "locked" <=>
                session.verificationAttempts >= session.maxVerificationAttempts
          /\ \A code \in Codes :
               LET out == verifyEmailAuth(authStore, session.id, code, authNow)
                   after == out.state.sessions[i]
               IN /\ (PendingNow(i) /\ ~CorrectCode(i, code)) =>
                       /\ out.error = "Invalid verification_code"
                       /\ after.verificationAttempts = session.verificationAttempts + 1
                       /\ after.status = IF after.verificationAttempts
                                               >= session.maxVerificationAttempts
                                         THEN "locked" ELSE "pending"
                       /\ out.state.sessions = [authStore.sessions EXCEPT ![i] = after]
                  /\ session.status = "locked" =>
                       /\ out.error /= ""
                       /\ out.state = authStore

\* A session locked by wrong codes, its expiry not yet come.
C18_Witness ==
    \E i \in EmailSessions :
       /\ authStore.sessions[i].status = "locked"
       /\ authStore.sessions[i].verificationAttempts = MaxAttempts
       /\ ~isExpired(authNow, authStore.sessions[i].expiresAt)

\* The stored session is pending although its expiry has come.
ExpiredUnstored(i) ==
    /\ authStore.sessions[i].status = "pending"
    /\ isExpired(authNow, authStore.sessions[i].expiresAt)

\* What the store holds after each of the calls that read session i.
AfterReads(i) ==
    LET id == authStore.sessions[i].id
    IN {getSession(authStore, id, authNow).state,
        resolveVerifiedIdentity(authStore, id, authNow).state,
        linkSessionToUser(authStore, id, "user_123", authNow).state}
       \cup {verifyEmailAuth(authStore, id, code, authNow).state : code \in Codes}
       \cup {verifyOAuthAuth(authStore, id, token, provider, "sub-1", authNow).state :
                token \in PresentedTokens(id), provider \in AllowedOauthProviders}

\* C19: after any call that reads a pending session whose expiresAt is at or
\* before the current time (getSession, verifyEmailAuth, verifyOAuthAuth,
\* linkSessionToUser, resolveVerifiedIdentity) the stored session is expired.
C19_ExpiryStoredOnRead ==
    \A i \in DOMAIN authStore.sessions :
       ExpiredUnstored(i) =>
          \A after \in AfterReads(i) : after.sessions[i].status = "expired"

\* C20: a session whose expiresAt passed while it was pending is never
\* verified: no stored session was verified at or after its expiresAt, and
\* verifyEmailAuth with the correct code and verifyOAuthAuth with the
\* session's own token are refused, the expired status stored or not.
C20_ExpiredNeverVerified ==
    \A i \in DOMAIN authStore.sessions :
       LET session == authStore.sessions[i]
       IN /\ session.status = "verified" => session.verifiedAt < session.expiresAt
          /\ (ExpiredUnstored(i) \/ session.status = "expired") =>
               /\ \A code \in Codes :
                     LET out == verifyEmailAuth(authStore, session.id, code, authNow)
                     IN out.error /= "" /\ out.state.sessions[i].status /= "verified"
               /\ \A provider \in AllowedOauthProviders :
                     LET out == verifyOAuthAuth(authStore, session.id, session.oauthStateToken,
                                                provider, "sub-1", authNow)
                     IN out.error /= "" /\ out.state.sessions[i].status /= "verified"

\* An email session past its expiry that the store still holds as pending.
C20_Witness ==
    \E i \in EmailSessions : ExpiredUnstored(i)

VerifiedSessions ==
    {i \in DOMAIN authStore.sessions : authStore.sessions[i].status = "verified"}

\* C21: a verified session stays verified: no call of the service changes
\* its status, at no clock value (those after its expiresAt included) does
\* the recomputation of the status from the time change the session, and
\* resolveVerifiedIdentity succeeds for it at every clock value.
C21_VerifiedStaysVerified ==
    /\ [][\A i \in VerifiedSessions :
            /\ i \in DOMAIN authStore'.sessions
            /\ authStore'.sessions[i].id = authStore.sessions[i].id
            /\ authStore'.sessions[i].status = "verified"]_vars
    /\ [](\A i \in VerifiedSessions : \A t \in 0..MaxClock :
            LET session == authStore.sessions[i]
                out == resolveVerifiedIdentity(authStore, session.id, t)
            IN /\ mutateSessionStatusForTime(session, t) = session
               /\ out.error = ""
               /\ out.state = authStore)

\* A session verified before several ticks of the clock is still verified at
\* the last clock value, its expiresAt long passed.
C21_Witness ==
    \E i \in VerifiedSessions :
       /\ authNow = MaxClock
       /\ authStore.sessions[i].verifiedAt = 0
       /\ authStore.sessions[i].expiresAt < authNow
       /\ resolveVerifiedIdentity(authStore, authStore.sessions[i].id, authNow).error = ""

\* The stored session after a failed verification that counted: one more
\* attempt, and locked when the count has reached the maximum.
AttemptCounted(before, after) ==
    /\ after.verificationAttempts = before.verificationAttempts + 1
    /\ after.status = IF after.verificationAttempts >= before.maxVerificationAttempts
                      THEN "locked" ELSE "pending"

\* C22: every failed verification of a pending session, by verifyEmailAuth
\* for an email session or by verifyOAuthAuth for an oauth session, leaves
\* the stored verificationAttempts one higher, and the session locked when
\* the maximum is reached.
C22_FailedVerificationCounted ==
    \A i \in DOMAIN authStore.sessions :
       LET session == authStore.sessions[i]
       IN PendingNow(i) =>
            /\ \A code \in Codes :
                  LET out == verifyEmailAuth(authStore, session.id, code, authNow)
                  IN (session.method = "email" /\ out.error /= "")
                        => AttemptCounted(session, out.state.sessions[i])
            /\ \A token \in PresentedTokens(session.id), provider \in AllowedOauthProviders :
                  LET out == verifyOAuthAuth(authStore, session.id, token, provider,
                                             "sub-1", authNow)
                  IN (session.method = "oauth" /\ out.error /= "")
                        => AttemptCounted(session, out.state.sessions[i])

\* The links stored for a user id.
LinksOf(state, userId) == {k \in DOMAIN state.links : state.links[k].userId = userId}

\* C23: the store holds at most one link per userId and every stored link
\* names a verified session; a linkSessionToUser call naming a verified
\* session leaves exactly one link for the userId, naming that session, and
\* the links of other users as they were; a call naming a session that is
\* not verified at the time of the call fails and changes nothing.
C23_OneLinkPerUser ==
    /\ \A k \in DOMAIN authStore.links :
          /\ LinksOf(authStore, authStore.links[k].userId) = {k}
          /\ authStore.links[k].userId /= ""
          /\ \E i \in VerifiedSessions :
                authStore.sessions[i].id = authStore.links[k].sessionId
    /\ \A i \in DOMAIN authStore.sessions, rawUserId \in UserIdInputs, t \in 0..MaxClock :
          LET session == authStore.sessions[i]
              userId == normalizeUserId(rawUserId)
              out == linkSessionToUser(authStore, session.id, rawUserId, t)
              others == {k \in DOMAIN authStore.links : authStore.links[k].userId /= userId}
          IN IF session.status = "verified" /\ userId /= ""
             THEN /\ out.error = ""
                  /\ \E k \in DOMAIN out.state.links :
                        /\ LinksOf(out.state, userId) = {k}
                        /\ out.state.links[k].sessionId = session.id
                  /\ \A k \in others : out.state.links[k] = authStore.links[k]
                  /\ Len(out.state.links) = Cardinality(others) + 1
             ELSE /\ out.error /= ""
                  /\ out.state = authStore

\* The link of a user was overwritten: the user is linked to a recovered
\* session, the session it was recovered from is verified too, and another
\* user has a link of its own.
C23_Witness ==
    \E k, l \in DOMAIN authStore.links :
       /\ authStore.links[k].userId = "user_123"
       /\ authStore.links[l].userId = "user_456"
       /\ k < l
       /\ \E i \in VerifiedSessions :
             /\ authStore.sessions[i].id = authStore.links[k].sessionId
             /\ authStore.sessions[i].recoveredWith /= 0

\* ------------------------------------------------------------------------
\* Properties of the invoice walk and of the subscription sync
\* ------------------------------------------------------------------------

\* The requested maxPages clamped to 1..50, 10 when absent or not an integer.
RequestedPages(raw) ==
    IF ~(raw.isNumber /\ raw.isInteger) THEN 10
    ELSE IF raw.value < 1 THEN 1
    ELSE IF raw.value > 50 THEN 50
    ELSE raw.value

WalkEnded == walk.pc \in {"returned", "threw"}

\* C25: the walk fetches at most maxPages pages, maxPages being the
\* requested value clamped to 1..50 (10 when absent or not an integer); it
\* requests no page after one that reported has_more=false; and every walk
\* ends, whatever the gateway reports.
C25_WalkBounded ==
    /\ [](walk.pc /= "idle" =>
             /\ walk.maxPages = RequestedPages(walk.raw)
             /\ walk.pageCount <= walk.maxPages
             /\ (walk.pc = "fetching" /\ walk.pageCount > 0) => walk.hasMore
             /\ walk.reachedEnd => (WalkEnded /\ ~walk.hasMore))
    /\ (walk.pc = "fetching") ~> WalkEnded

\* A walk asked for 51 pages returned after 50, each of them reporting
\* has_more=true.
C25_Witness ==
    /\ walk.pc = "returned"
    /\ walk.raw = IntegerNumber(51)
    /\ walk.pageCount = 50
    /\ walk.hasMore

C26_TruncationReported ==
    (/\ syncRun.phase /= "none"
     /\ syncRun.input.allCustomers
     /\ normalizeMonth(syncRun.input.month) \in Months \cup {""}) =>
       /\ syncRun.first.threw = ""
       /\ syncRun.first.truncated = IF syncRun.input.hasMore THEN "true" ELSE "false"


\* ---- batch runs ----

\* The invocation's transaction has been submitted to the chain.
OnChain(i) == batchInv[i].pc \in {"broadcasting", "retired", "failed_on_chain"}

\* Where the run store keeps the record of invocation i.
RunIndex(i) == CHOOSE k \in DOMAIN batchRuns : batchRuns[k].id = i

SuccessfulDryRunBefore(i) ==
    \E k \in DOMAIN batchRuns :
       /\ k < RunIndex(i)
       /\ sameKey(batchRuns[k], batchInv[i].input)
       /\ batchRuns[k].executionMode = "dry_run"
       /\ batchRuns[k].status = "completed"

\* C27: a live run whose transaction went on chain was forced or has a
\* successful dry_run of the same (month, creditType) recorded before it; a
\* live run without either is recorded with status blocked and never gets
\* to the broadcast.
C27_PreflightBlocks ==
    /\ \A i \in InvIds :
          (OnChain(i) /\ batchInv[i].input.executionMode = "live")
             => (batchInv[i].input.force \/ SuccessfulDryRunBefore(i))
    /\ \A i \in InvIds :
          batchInv[i].pc = "blocked"
             => /\ ~OnChain(i)
                /\ batchRuns[RunIndex(i)].status = "blocked"
                /\ batchRuns[RunIndex(i)].executionMode = "live"
    /\ \A input \in BatchRunInputs :
          (/\ input.executionMode = "live"
           /\ ~input.force
           /\ ~hasActiveExecution(batchRuns, input)
           /\ ~\E k \in DOMAIN batchRuns :
                  /\ sameKey(batchRuns[k], input)
                  /\ batchRuns[k].executionMode = "dry_run"
                  /\ batchRuns[k].status = "completed")
             => LET r == invoke(batchRuns, 0, input) IN
                  /\ r.pc = "blocked"
                  /\ r.runs[Len(r.runs)].status = "blocked"

\* An unforced live run retired after the dry run of its month and credit
\* type, and another live run was blocked.
C27_Witness ==
    /\ \E i \in InvIds :
          /\ batchInv[i].pc = "retired"
          /\ ~batchInv[i].input.force
          /\ SuccessfulDryRunBefore(i)
    /\ \E i \in InvIds : batchInv[i].pc = "blocked"

Active(i) == batchInv[i].pc \in {"in_progress", "broadcasting"}

\* C28: of the invocations for one (month, creditType) at most one is in
\* progress and at most one has a broadcast in flight; the run store holds at
\* most one in_progress record for the pair; an invocation arriving while one
\* is in progress is rejected and records nothing.
C28_OneActiveExecution ==
    /\ \A i, j \in InvIds :
          (/\ i # j
           /\ Active(i) /\ Active(j))
             => ~sameKey(batchInv[i].input, batchInv[j].input)
    /\ \A k, l \in DOMAIN batchRuns :
          (/\ k # l
           /\ batchRuns[k].status = "in_progress"
           /\ batchRuns[l].status = "in_progress")
             => ~sameKey(batchRuns[k], batchRuns[l])
    /\ \A i \in InvIds, input \in BatchRunInputs :
          (Active(i) /\ sameKey(batchInv[i].input, input))
             => LET r == invoke(batchRuns, 0, input) IN
                  r.pc = "rejected" /\ r.runs = batchRuns

\* One invocation has its broadcast in flight and a second one for the same
\* month and credit type was rejected.
C28_Witness ==
    \E i, j \in InvIds :
       /\ batchInv[i].pc = "broadcasting"
       /\ batchInv[j].pc = "rejected"
       /\ sameKey(batchInv[i].input, batchInv[j].input)

\* ---- concurrent retirement calls ----

InFlight == {c \in CallerIds : retireCalls[c].pc = "signAndBroadcast"}

\* C29: under concurrent retirement calls in one process the wallet signer
\* is used sequentially: at most one signAndBroadcast call is in flight.
C29_SignerSequential == Cardinality(InFlight) <= 1


\* ---- debits ----

\* C30: a debit from the current state succeeds only when the user's balance
\* is at least the amount, and then takes exactly the amount and adds one
\* 'retirement' row; a failed debit leaves the users and the transactions
\* tables as they are; no balance is ever negative.
C30_DebitNeverOverdraws ==
    /\ \A u \in DOMAIN users : users[u].balance_cents >= 0
    /\ \A userId \in 0..(Len(users) + 1), amountCents \in 1..MaxDebitCents :
          LET r == debitBalance(users, transactions, userId, amountCents) IN
            /\ r.success =>
                  /\ userId \in DOMAIN users
                  /\ users[userId].balance_cents >= amountCents
                  /\ r.users[userId].balance_cents
                        = users[userId].balance_cents - amountCents
                  /\ r.balance_cents = r.users[userId].balance_cents
                  /\ \A u \in DOMAIN users : u # userId => r.users[u] = users[u]
                  /\ Len(r.transactions) = Len(transactions) + 1
            /\ ~r.success =>
                  /\ r.users = users
                  /\ r.transactions = transactions
                  /\ (userId \in DOMAIN users
                        => users[userId].balance_cents < amountCents)

\* A debit has succeeded, and a user is left with less than the largest
\* debit, so that a further debit of that amount fails.
C30_Witness ==
    /\ \E k \in DOMAIN transactions : transactions[k].type = "retirement"
    /\ \E u \in DOMAIN users :
          /\ users[u].balance_cents < MaxDebitCents
          /\ ~debitBalance(users, transactions, u, MaxDebitCents).success


\* ---- webhook signatures ----

\* The deliveries of checkout.session.completed events whose signature was
\* verified.
VerifiedCheckouts ==
    {i \in DOMAIN deliveries :
        /\ deliveries[i].sig = "valid"
        /\ \E e \in WebhookEvents :
              e.id = deliveries[i].event /\ e.type = "checkout.session.completed"}

\* C31: with a webhook secret configured, every request whose signature
\* header is missing or invalid is rejected (400), and every top-up in the
\* store comes from a delivery whose signature was verified.
C31_SignatureMandatory ==
    webhookSecret =>
       /\ \A i \in DOMAIN deliveries :
             deliveries[i].sig /= "valid" => deliveries[i].http = 400
       /\ Len(transactions) <= Cardinality(VerifiedCheckouts)


\* ---- rate limiter ----

\* The requests of the key admitted in the window-long interval starting at
\* the instant from.
AdmittedWithin(apiKey, from) ==
    {i \in DOMAIN rateLog :
        /\ rateLog[i].apiKey = apiKey
        /\ rateLog[i].allowed
        /\ rateLog[i].at >= from
        /\ rateLog[i].at < from + windowMs}

\* C32: for every key and every interval of one window length, wherever it
\* starts, the requests admitted for the key inside it do not exceed the
\* limit. (An interval holding the most requests can be taken to start at an
\* admitted request.)
C32_SlidingWindow ==
    \A i \in DOMAIN rateLog :
       Cardinality(AdmittedWithin(rateLog[i].apiKey, rateLog[i].at)) <= apiRateLimit

\* The last request checked for the key (0: none).
LastRequest(apiKey) ==
    LET mine == {i \in DOMAIN rateLog : rateLog[i].apiKey = apiKey}
    IN IF mine = {} THEN 0 ELSE CHOOSE i \in mine : \A j \in mine : j <= i

\* C40: a refused request gets a Retry-After between 1 and 60 seconds, and
\* the key's next request, made at least that many seconds after the refusal,
\* is admitted.
C40_RetryAfterHonoured ==
    /\ \A i \in DOMAIN rateLog :
          ~rateLog[i].allowed =>
             /\ rateLog[i].retryAfterSec >= 1
             /\ rateLog[i].retryAfterSec <= 60
    /\ \A apiKey \in ApiKeys :
          LET i == LastRequest(apiKey) IN
            (/\ i # 0
             /\ ~rateLog[i].allowed
             /\ rateNow >= rateLog[i].at + 1000 * rateLog[i].retryAfterSec)
               => checkRateLimit(rateLimitWindows, apiKey, apiRateLimit, rateNow).allowed

\* A request was refused with a Retry-After that is not a whole window, the
\* time it asked for has passed, and the key has not asked again.
C40_Witness ==
    \E apiKey \in ApiKeys :
       LET i == LastRequest(apiKey) IN
         /\ i # 0
         /\ ~rateLog[i].allowed
         /\ rateLog[i].retryAfterSec < 60
         /\ rateNow >= rateLog[i].at + 1000 * rateLog[i].retryAfterSec


\* ---- identity tags ----

\* C33: parsing the tagged reason gives back exactly the reason text and the
\* identity that were tagged, for every reason text (those ending in
\* bracketed text included) and every identity (method none included).
C33_IdentityRoundTrip ==
    identCase.phase = "parsed" =>
       /\ identCase.parsed.reasonText = identCase.reasonText
       /\ identCase.parsed.identity = identCase.identity


\* ---- entry points ----

UsdcAllowed(allowedDenoms) ==
    \E i \in DOMAIN allowedDenoms : allowedDenoms[i].bank_denom = "uusdc"

\* C34: with the stripe provider configured every entry point asks order
\* selection to prefer USDC, and what it asks the provider to authorize is in
\* uusdc whenever uusdc is an allowed denom.
C34_FiatPrefersUsdc ==
    entryCall.provider = "stripe" =>
       /\ entryCall.preferredDenom = "USDC"
       /\ (entryCall.outcome = "authorizePayment" /\ UsdcAllowed(entryCall.allowedDenoms))
             => entryCall.authorizeDenom = "uusdc"


\* ---- accepted transactions ----

\* signAndBroadcast of this call returned code 0.
AcceptedOnLedger ==
    \E i \in DOMAIN calls :
       calls[i].op = "signAndBroadcast" /\ calls[i].out = "code0"

\* C35: a call whose transaction was accepted on the Ledger (signAndBroadcast
\* returned code 0) returns success carrying that transaction hash, whatever
\* capture, the prepaid debit and the indexer polling do afterwards; a
\* marketplace fallback is returned only when no transaction was accepted.
C35_AcceptedMeansSuccess ==
    (rpc = "done" /\ AcceptedOnLedger) =>
       /\ result.status = "success"
       /\ result.txHash = tx.hash


\* ---- prepaid debits ----

\* C36: every retirement that returned success debited the prepaid balance
\* by its cost exactly once, and none returned success after its debit was
\* refused.
C36_SuccessMeansDebited ==
    \A c \in CallerIds :
       prepaidCalls[c].result = "success" =>
          /\ prepaidCalls[c].debits = 1
          /\ ~prepaidCalls[c].refused


\* ---- concurrent auth calls ----

\* The recoverWithToken calls that returned a session.
RecoveriesSucceeded ==
    {c \in CallerIds :
        /\ raceCalls[c].op = "recoverWithToken"
        /\ raceCalls[c].pc = "returned"
        /\ raceCalls[c].error = ""}

\* C37: of the concurrent recoverWithToken calls presenting one token at
\* most one succeeds, and the file holds at most one session recovered with
\* that token.
C37_OneRecoveryUnderRace ==
    /\ Cardinality(RecoveriesSucceeded) <= 1
    /\ Cardinality({i \in DOMAIN raceStore.sessions :
                       raceStore.sessions[i].recoveredWith = 1}) <= 1

\* The verifyEmailAuth calls that tried a wrong code against the pending
\* session and were told so.
WrongCodesTried ==
    {c \in CallerIds :
        /\ raceCalls[c].op = "verifyEmailAuth"
        /\ raceCalls[c].pc = "returned"
        /\ raceCalls[c].error = "Invalid verification_code"}

\* C38: no failed attempt is lost: the file counts every wrong code that
\* was tried, so that no more than maxVerificationAttempts wrong codes are
\* ever tried against the session.
C38_NoAttemptLost ==
    /\ Cardinality(WrongCodesTried) <= MaxAttempts
    /\ raceStore.sessions[2].verificationAttempts >= Cardinality(WrongCodesTried)


\* ---- monotone allocation ----

\* No contributor of strictly larger weight has a strictly smaller allocation.
MonotoneInWeight(weights, alloc) ==
    \A i, j \in DOMAIN weights :
       weights[i] > weights[j] => alloc[i] >= alloc[j]

\* C39: each of the three proportional allocations of an attribution
\* (budget, cost, quantity) is monotone in the contributors' weights.
C39_AllocationMonotone ==
    (attrOut.done /\ Sum(attrInput.contributors) > 0) =>
        /\ MonotoneInWeight(attrInput.contributors, attrOut.budgetAllocations)
        /\ MonotoneInWeight(attrInput.contributors, attrOut.costAllocations)
        /\ MonotoneInWeight(attrInput.contributors, attrOut.quantityAllocations)

\* The one unit of a budget that does not divide goes to the heavier of two
\* contributors, whose floor shares are both zero.
C39_Witness ==
    /\ attrOut.done
    /\ attrInput.contributors = <<1, 2>>
    /\ attrInput.appliedBudgetUsdCents = 1
    /\ attrOut.budgetAllocations = <<0, 1>>

====
